---- MODULE Spec2Model ----
(***************************************************************************)
(* The quiz relay server of taskcards (src/server/server.js): the room     *)
(* registry, the room objects, the channels, the pending timers and the    *)
(* clock, with one action per message handler, close event and timer       *)
(* callback.                                                               *)
(***************************************************************************)
EXTENDS Integers, Sequences, FiniteSets, TLC

(***************************************************************************)
(* Bounds of the model.  A run is bounded by one of five budgets (the      *)
(* variable lim), each wide in one direction: the host of one room coming  *)
(* and going, one room played by its host and its players, two rooms side  *)
(* by side, one room filled to its capacity, and one host that restores    *)
(* again and again.  A budget bounds the                                   *)
(* channels that connect, the room objects created, the session ids minted *)
(* and the timers armed (setTimeout calls) during a run.                   *)
(***************************************************************************)
GraceWs == 3
GraceRooms == 1
GraceMint == 2
GraceTimers == 3
PlayWs == 2
PlayRooms == 1
PlayMint == 2
PlayTimers == 2
PairWs == 2
PairRooms == 2
PairMint == 2
PairTimers == 2
FullWs == 2
FullRooms == 1
FullMint == 2
FullTimers == 2
AgainWs == 1
AgainRooms == 2
AgainMint == 1
AgainTimers == 2
QuizWs == 3
QuizRooms == 1
QuizMint == 3
QuizTimers == 2
BackWs == 2
BackRooms == 2
BackMint == 2
BackTimers == 2
BurstWs == 1
BurstRooms == 1
BurstMint == 1
BurstTimers == 2
\* a host and a player, one room, and no client that answers a ping after
\* the first sweep
HeartWs == 2
HeartRooms == 1
HeartMint == 2
HeartTimers == 2
\* a host that writes a session id of its own making
ForgeWs == 1
ForgeRooms == 1
ForgeMint == 1
ForgeTimers == 2
\* three channels of a host, two rooms one after the other, their expiry
\* timers and three host-disconnect timers
StaleWs == 3
StaleRooms == 2
StaleMint == 2
StaleTimers == 5
\* a host and a player that becomes the host of a second room
CrossWs == 2
CrossRooms == 2
CrossMint == 3
CrossTimers == 2
\* a host whose two channels close, and the process is told to end
TermWs == 2
TermRooms == 1
TermMint == 1
TermTimers == 3
\* a host that sends frames the switch does not handle
OddWs == 1
OddRooms == 1
OddMint == 1
OddTimers == 1
HalfSecond == 500

(***************************************************************************)
(* Program constants.                                                      *)
(***************************************************************************)
MAX_PLAYERS_PER_ROOM == 240
ROOM_MAX_AGE_MS == 2 * 60 * 60 * 1000
HOST_GRACE_MS == 5 * 60 * 1000
HEARTBEAT_MS == 30000
RESTORE_MIN_MS == 5000

\* Date.now() when the process starts (any positive value)
StartTime == 1000
\* the lengths of time a run lets pass between two events, and the time up to
\* which it does (beyond it the clock moves from timer to timer)
Steps == {240000}
MaxClock == StartTime + 240000
\* the time a player takes to answer a question
ThinkTime == 7000

(***************************************************************************)
(* JavaScript values.  A value is a record [ty, pre, n]: a string is the   *)
(* text pre followed by the digits of n (n = 0: nothing follows), a number *)
(* is n, undefined has neither.                                            *)
(***************************************************************************)
Undefined == [ty |-> "undefined", pre |-> "", n |-> 0]
Str(p, k) == [ty |-> "string", pre |-> p, n |-> k]
Num(k) == [ty |-> "number", pre |-> "", n |-> k]

\* a test that takes every value for a missing one
NeverTruthy(v) == FALSE

\* JavaScript truthiness: undefined, "" and 0 are falsy
Truthy(v) ==
    \/ v.ty = "string" /\ ~(v.pre = "" /\ v.n = 0)
    \/ v.ty = "number" /\ v.n # 0

IsString(v) == v.ty = "string"

\* s.startsWith('sess-')
StartsWithSess(v) == v.pre = "sess-"

\* the k-th value crypto.randomUUID returns, prefixed
MintedSessionId(k) == Str("sess-", k)

\* absent channel / absent timer handle / absent number
Null == 0

(***************************************************************************)
(* Room codes.  generateRoomId draws from Alphabet^4; the model keeps two  *)
(* codes of that set.  Clients write codes in any case and with blanks.    *)
(***************************************************************************)
RoomCodes == {"AB12", "CD34"}
NoRoomId == ""

\* a code as a client may write it
Lower(code) == IF code = "AB12" THEN "ab12" ELSE code
Spaced(code) == IF code = "AB12" THEN "ab 12" ELSE code

\* String.prototype.toUpperCase on the texts of the model
ToUpperCase(s) ==
    CASE s = "ab12" -> "AB12"
      [] s = "ab 12" -> "AB 12"
      [] OTHER -> s

\* s.replace(/\s/g, '') on the texts of the model
StripSpaces(s) ==
    CASE s = "ab 12" -> "ab12"
      [] s = "AB 12" -> "AB12"
      [] OTHER -> s

(***************************************************************************)
(* Map: a JavaScript Map as the sequence of its entries [k, v] in          *)
(* insertion order, keys distinct.                                         *)
(***************************************************************************)
MapKeys(m) == {m[i].k : i \in 1..Len(m)}
MapHas(m, key) == key \in MapKeys(m)
MapIndex(m, key) == CHOOSE i \in 1..Len(m) : m[i].k = key
MapGet(m, key) == m[MapIndex(m, key)].v
MapSet(m, key, val) ==
    IF MapHas(m, key)
    THEN [m EXCEPT ![MapIndex(m, key)].v = val]
    ELSE Append(m, [k |-> key, v |-> val])
MapSize(m) == Len(m)

\* a delete that leaves the entry
MapKeep(m, key) == m

\* map.delete(key)
MapDelete(m, key) == SelectSeq(m, LAMBDA e : e.k # key)

\* the Map after map.set(e.k, e.v) for every e of entries in turn, from the
\* empty Map: a key stands where it was first set and holds what was set last
MapFromEntries(entries) ==
    LET n == Len(entries)
        firsts == SelectSeq([i \in 1..n |-> i],
                            LAMBDA i : \A j \in 1..(i - 1) : entries[j].k # entries[i].k)
        lastOf(key) == CHOOSE i \in 1..n :
                          /\ entries[i].k = key
                          /\ \A j \in (i + 1)..n : entries[j].k # key
    IN [x \in 1..Len(firsts) |->
           [k |-> entries[firsts[x]].k, v |-> entries[lastOf(entries[firsts[x]].k)].v]]

(***************************************************************************)
(* Names: a JavaScript string as the sequence of its characters.           *)
(***************************************************************************)
Spieler == <<"S", "p", "i", "e", "l", "e", "r">>
ControlChars == {"\t", "\n", "\r"}
WhiteSpace == {" ", "\t", "\n", "\r"}

\* name.replace(/<[^>]*>/g, ''): every leftmost "<" that some ">" follows
\* is removed together with everything up to the first such ">"
RECURSIVE StripTagsFrom(_, _)
StripTagsFrom(s, i) ==
    IF i > Len(s) THEN <<>>
    ELSE IF s[i] = "<" /\ \E j \in (i + 1)..Len(s) : s[j] = ">"
         THEN LET j == CHOOSE x \in (i + 1)..Len(s) :
                           /\ s[x] = ">"
                           /\ \A y \in (i + 1)..(x - 1) : s[y] # ">"
              IN StripTagsFrom(s, j + 1)
         ELSE <<s[i]>> \o StripTagsFrom(s, i + 1)

StripTags(s) == StripTagsFrom(s, 1)

\* .replace(/[\x00-\x1F\x7F]/g, '')
StripControl(s) == SelectSeq(s, LAMBDA ch : ch \notin ControlChars)

\* .trim()
Trim(s) ==
    LET keep == {i \in 1..Len(s) : s[i] \notin WhiteSpace}
    IN IF keep = {} THEN <<>>
       ELSE LET lo == CHOOSE i \in keep : \A j \in keep : i <= j
                hi == CHOOSE i \in keep : \A j \in keep : j <= i
            IN SubSeq(s, lo, hi)

\* .substring(0, 50)
Substring50(s) == IF Len(s) > 50 THEN SubSeq(s, 1, 50) ELSE s

\* a name as a client sends it: [ty, chars], chars the text of a string
NameStr(chars) == [ty |-> "string", chars |-> chars]
NameAbsent == [ty |-> "undefined", chars |-> <<>>]
NameTruthy(name) == name.ty = "string" /\ name.chars # <<>>

sanitizeName(name) ==
    IF name.ty # "string" THEN Spieler
    ELSE LET r == Substring50(Trim(StripControl(StripTags(name.chars))))
         IN IF r = <<>> THEN Spieler ELSE r

(***************************************************************************)
(* The state.                                                              *)
(***************************************************************************)
VARIABLES
    rooms,      \* the registry: Map roomId -> reference to a room object
    heap,       \* the room objects ever created, by reference (1, 2, ...)
    clients,    \* the channels: state, roomId, sessionId, role, _hasRoom, _lastRestore
    timers,     \* the pending setTimeout timers
    nextTimer,  \* the handle the next setTimeout returns
    nextMint,   \* the number of the next session id crypto.randomUUID yields
    now,        \* Date.now()
    down,       \* SIGTERM was handled
    sent,       \* the frames the last step sent, in order: [to, msg]
    last,       \* the last step: the event and the channel it came from
    lim,        \* the budget of the run
    meter,      \* per channel: _msgCount, when _msgResetTimer fires next, and
                \* what the channel sent in the second that began at since
    crashed,    \* the process died of an uncaught exception
    heart       \* when heartbeatInterval fires next, and per channel: isAlive,
                \* and what the channel did since the last sweep

vars ==
    <<rooms, heap, clients, timers, nextTimer, nextMint, now, down, sent, last, lim,
      meter, crashed, heart>>

Channels == DOMAIN clients

\* A budget also says what the client of each channel sends, and which room
\* codes hosts name (names) in reconnect_host and restore_room; whether the
\* process is sent SIGTERM (term); and whether the clients keep to few of
\* the frames of join, submit_answer and start_question (few).
GraceBudget ==
    [ws |-> GraceWs,
     verbs |-> [c \in 1..GraceWs |->
                  IF c = 1 THEN {"create_room", "terminate", "close"}
                  ELSE IF c = 2 THEN {"reconnect_host", "close"}
                  ELSE {"reconnect_host", "join", "close"}],
     rooms |-> GraceRooms, mint |-> GraceMint, timers |-> GraceTimers,
     codes |-> {"AB12"}, names |-> {"AB12"}, big |-> FALSE, burst |-> FALSE, heart |-> FALSE, term |-> FALSE, few |-> FALSE, sids |-> {},
     clock |-> MaxClock, steps |-> Steps]

PlayBudget ==
    [ws |-> PlayWs,
     verbs |-> [c \in 1..PlayWs |->
                  IF c = 1 THEN {"create_room", "start_question", "send_results",
                                 "terminate", "close"}
                  ELSE IF c = 2 THEN {"join", "submit_answer", "start_question",
                                      "send_results", "terminate", "close"}
                  ELSE {"join", "close"}],
     rooms |-> PlayRooms, mint |-> PlayMint, timers |-> PlayTimers,
     codes |-> {"AB12"}, names |-> {"AB12"}, big |-> FALSE, burst |-> FALSE, heart |-> FALSE, term |-> FALSE, few |-> FALSE, sids |-> {},
     clock |-> StartTime + ThinkTime,
     steps |-> {ThinkTime}]

PairBudget ==
    [ws |-> PairWs,
     verbs |-> [c \in 1..PairWs |->
                  IF c = 1 THEN {"create_room", "close"}
                  ELSE {"restore_room", "join", "close"}],
     rooms |-> PairRooms, mint |-> PairMint, timers |-> PairTimers,
     codes |-> RoomCodes, names |-> {"AB12"}, big |-> FALSE, burst |-> FALSE, heart |-> FALSE, term |-> FALSE, few |-> TRUE, sids |-> {},
     clock |-> StartTime, steps |-> Steps]

FullBudget ==
    [ws |-> FullWs,
     verbs |-> [c \in 1..FullWs |->
                  IF c = 1 THEN {"restore_room", "close"} ELSE {"join", "close"}],
     rooms |-> FullRooms, mint |-> FullMint, timers |-> FullTimers,
     codes |-> {"AB12"}, names |-> {"AB12"}, big |-> TRUE, burst |-> FALSE, heart |-> FALSE, term |-> FALSE, few |-> FALSE, sids |-> {},
     clock |-> StartTime, steps |-> Steps]

\* one host that creates or restores a room and restores again, just before
\* and just when the restore limit has passed
AgainBudget ==
    [ws |-> AgainWs,
     verbs |-> [c \in 1..AgainWs |->
                  {"create_room", "restore_room", "send_results", "close"}],
     rooms |-> AgainRooms, mint |-> AgainMint, timers |-> AgainTimers,
     codes |-> {"AB12"}, names |-> {"AB12"}, big |-> FALSE, burst |-> FALSE, heart |-> FALSE, term |-> FALSE, few |-> FALSE, sids |-> {},
     clock |-> StartTime + 2 * RESTORE_MIN_MS - 1,
     steps |-> {RESTORE_MIN_MS - 1, RESTORE_MIN_MS}]

\* a host and two players, at one moment
QuizBudget ==
    [ws |-> QuizWs,
     verbs |-> [c \in 1..QuizWs |->
                  IF c = 1 THEN {"create_room", "start_question", "send_results",
                                 "terminate"}
                  ELSE IF c = 2 THEN {"join", "submit_answer", "close"}
                  ELSE {"join", "close"}],
     rooms |-> QuizRooms, mint |-> QuizMint, timers |-> QuizTimers,
     codes |-> {"AB12"}, names |-> {"AB12"}, big |-> FALSE, burst |-> FALSE, heart |-> FALSE, term |-> FALSE, few |-> TRUE, sids |-> {},
     clock |-> StartTime, steps |-> {}]

\* a host that ends its room and brings it back, and a player
BackBudget ==
    [ws |-> BackWs,
     verbs |-> [c \in 1..BackWs |->
                  IF c = 1 THEN {"create_room", "terminate", "restore_room"}
                  ELSE {"join", "submit_answer"}],
     rooms |-> BackRooms, mint |-> BackMint, timers |-> BackTimers,
     codes |-> {"AB12"}, names |-> {"AB12"}, big |-> FALSE, burst |-> FALSE, heart |-> FALSE, term |-> FALSE, few |-> FALSE, sids |-> {},
     clock |-> StartTime, steps |-> {}]

\* a host that sends create_room again and again, within two seconds; here
\* the message counter of the channel and the interval that resets it are
\* followed.  In the other budgets no channel sends more than
\* RATE_LIMIT_PER_SECOND frames between two resets of its counter, the test
\* of the counter never fails, and counter and interval are left out.
BurstBudget ==
    [ws |-> BurstWs,
     verbs |-> [c \in 1..BurstWs |-> {"create_room"}],
     rooms |-> BurstRooms, mint |-> BurstMint, timers |-> BurstTimers,
     codes |-> {"AB12"}, names |-> {"AB12"}, big |-> FALSE, burst |-> TRUE, heart |-> FALSE, term |-> FALSE, few |-> FALSE, sids |-> {},
     clock |-> StartTime + 2 * HalfSecond, steps |-> {HalfSecond}]

\* a host and a player that answer pings or do not; here the heartbeat sweep
\* and the isAlive flags are followed, and no client answers a ping after
\* the time clock.  In the other budgets every channel answers every ping,
\* no sweep closes a channel, and sweep and flags are left out.
HeartBudget ==
    [ws |-> HeartWs,
     verbs |-> [c \in 1..HeartWs |->
                  IF c = 1 THEN {"create_room", "pong"} ELSE {"join", "pong"}],
     rooms |-> HeartRooms, mint |-> HeartMint, timers |-> HeartTimers,
     codes |-> {"AB12"}, names |-> {"AB12"}, big |-> FALSE, burst |-> FALSE,
     heart |-> TRUE, term |-> FALSE, few |-> FALSE, sids |-> {}, clock |-> StartTime + HEARTBEAT_MS, steps |-> {}]

\* a host that restores a room under a session id that is no session id
\* (sids); in the other budgets hosts write session ids of the mint format
ForgeBudget ==
    [ws |-> ForgeWs,
     verbs |-> [c \in 1..ForgeWs |-> {"restore_room", "reconnect_host", "close"}],
     rooms |-> ForgeRooms, mint |-> ForgeMint, timers |-> ForgeTimers,
     codes |-> {"AB12"}, names |-> {"AB12"}, big |-> FALSE, burst |-> FALSE,
     heart |-> FALSE, term |-> FALSE, few |-> FALSE, sids |-> {Str("bad-", 1)}, clock |-> StartTime, steps |-> {}]

\* a room whose host is taken over twice, whose first two host channels
\* close, and that the third terminates; the third then creates a room,
\* under the same code, before the timers of the first room's closes are due
StaleBudget ==
    [ws |-> StaleWs,
     verbs |-> [c \in 1..StaleWs |->
                  IF c = 1 THEN {"create_room", "close"}
                  ELSE IF c = 2 THEN {"reconnect_host", "close"}
                  ELSE {"reconnect_host", "terminate", "create_room", "close"}],
     rooms |-> StaleRooms, mint |-> StaleMint, timers |-> StaleTimers,
     codes |-> {"AB12"}, names |-> {"AB12"}, big |-> FALSE, burst |-> FALSE,
     heart |-> FALSE, term |-> FALSE, few |-> FALSE, sids |-> {}, clock |-> StartTime, steps |-> {}]

\* a host that terminates its room after a player of the room has created a
\* room of its own, under the other code
CrossBudget ==
    [ws |-> CrossWs,
     verbs |-> [c \in 1..CrossWs |->
                  IF c = 1 THEN {"create_room", "terminate"}
                  ELSE {"join", "create_room"}],
     rooms |-> CrossRooms, mint |-> CrossMint, timers |-> CrossTimers,
     codes |-> RoomCodes, names |-> {"AB12"}, big |-> FALSE, burst |-> FALSE,
     heart |-> FALSE, term |-> FALSE, few |-> FALSE, sids |-> {}, clock |-> StartTime, steps |-> {}]

\* a room whose host is taken over and whose two host channels close, and
\* SIGTERM at any moment; in the other budgets the process is not signalled
TermBudget ==
    [ws |-> TermWs,
     verbs |-> [c \in 1..TermWs |->
                  IF c = 1 THEN {"create_room", "close"}
                  ELSE {"reconnect_host", "close"}],
     rooms |-> TermRooms, mint |-> TermMint, timers |-> TermTimers,
     codes |-> {"AB12"}, names |-> {"AB12"}, big |-> FALSE, burst |-> FALSE,
     heart |-> FALSE, term |-> TRUE, few |-> FALSE, sids |-> {}, clock |-> StartTime, steps |-> {}]

\* a host that sends frames that are no JSON, that have no type or a type
\* the switch does not know, and frames whose handling throws
OddBudget ==
    [ws |-> OddWs,
     verbs |-> [c \in 1..OddWs |-> {"create_room", "raw", "throw"}],
     rooms |-> OddRooms, mint |-> OddMint, timers |-> OddTimers,
     codes |-> {"AB12"}, names |-> {"AB12"}, big |-> FALSE, burst |-> FALSE,
     heart |-> FALSE, term |-> FALSE, few |-> FALSE, sids |-> {}, clock |-> StartTime, steps |-> {}]

Budgets ==
    {GraceBudget, PlayBudget, PairBudget, FullBudget, AgainBudget, QuizBudget,
     BackBudget, BurstBudget, HeartBudget, ForgeBudget, StaleBudget, CrossBudget,
     TermBudget, OddBudget}

NoIndex == -1

\* lastFrame and gone are no fields of the program's: they record when the
\* channel's last restore_room frame arrived, and that the room the channel
\* was bound to has been terminated by its host since the channel was bound,
\* for the properties that speak of it
NewChannel ==
    [st |-> "idle", roomId |-> NoRoomId, sessionId |-> Undefined, role |-> "",
     hasRoom |-> FALSE, lastRestore |-> Null, lastFrame |-> Null, gone |-> FALSE]

\* nothing reads the fields of a channel after its close event: the model
\* forgets them
ClosedChannel == [NewChannel EXCEPT !.st = "closed"]

\* ws._msgCount = 0 and no interval yet.  since, got and passed are no fields
\* of the program's: got counts the frames that arrived and passed those
\* that were dispatched since the time since, for less than a second
NewMeter == [count |-> 0, tick |-> Null, since |-> Null, got |-> 0, passed |-> 0]

\* ws.isAlive = true.  ponged and pinged are no fields of the program's: the
\* channel's pong event ran since the last sweep, and the last sweep sent the
\* channel a ping
NewPulse == [isAlive |-> TRUE, ponged |-> FALSE, pinged |-> FALSE]

Init ==
    /\ lim \in Budgets
    /\ rooms = <<>>
    /\ heap = <<>>
    /\ clients = [c \in 1..lim.ws |-> NewChannel]
    /\ timers = {}
    /\ nextTimer = 1
    /\ nextMint = 1
    /\ now = StartTime
    /\ down = FALSE
    /\ sent = <<>>
    /\ last = [op |-> "init", ws |-> Null]
    /\ meter = [c \in 1..lim.ws |-> NewMeter]
    /\ crashed = FALSE
    /\ heart = [beat |-> IF lim.heart THEN StartTime + HEARTBEAT_MS ELSE Null,
                ws |-> [c \in 1..lim.ws |-> NewPulse]]

(***************************************************************************)
(* Utilities of server.js.                                                 *)
(***************************************************************************)
IsOpen(ws) == ws # Null /\ clients[ws].st = "open"

\* send(ws, data) with the channels as in cl: the frames it puts on the wire
\* (ws && ws.readyState === 1)
SendOn(cl, ws, data) ==
    IF ws # Null /\ cl[ws].st = "open" THEN <<[to |-> ws, msg |-> data]>> ELSE <<>>

send(ws, data) == SendOn(clients, ws, data)

\* a broadcast that reaches the host as well
broadcastToRoom(room, data) ==
    LET open == SelectSeq(room.players, LAMBDA e : IsOpen(e.v.ws))
    IN SendOn(clients, room.hostWs, data)
          \o [i \in 1..Len(open) |-> [to |-> open[i].v.ws, msg |-> data]]

\* broadcastToPlayers(room, data): data goes to every player whose channel is
\* attached and open, in the order of room.players
broadcastToPlayers(room, data) ==
    LET open == SelectSeq(room.players, LAMBDA e : IsOpen(e.v.ws))
    IN [i \in 1..Len(open) |-> [to |-> open[i].v.ws, msg |-> data]]

getConnectedPlayerCount(room) ==
    Cardinality({i \in 1..Len(room.players) : room.players[i].v.isConnected})

\* a generator that does not look at the registry
anyRoomId == lim.codes

\* generateRoomId: any code that is not in the registry
generateRoomId == {id \in lim.codes : ~MapHas(rooms, id)}

generateSessionId == MintedSessionId(nextMint)

\* the room object the registry holds under roomId
RoomAt(roomId) == heap[MapGet(rooms, roomId)]

\* a cancellation that only takes timers that are already due
clearIfDue(pending, id) == {t \in pending : t.id # id \/ t.at > now}

\* a clearTimeout that cancels nothing
clearNothing(pending, handle) == pending

\* clearTimeout(handle)
clearTimeout(pending, handle) == {t \in pending : t.id # handle}

Frame(type) == [type |-> type]
ErrorFrame(message) == [type |-> "error", message |-> message]

ErrAlreadyHosting == "Du hast bereits einen Raum erstellt."
ErrRoomNotFound == "Raum nicht gefunden."
ErrInvalidSession == "Ungueltige Session-ID fuer diesen Raum."
ErrRestoreRateLimited == "Bitte warte einen Moment vor der naechsten Wiederherstellung."
ErrRestoreMissingData == "Wiederherstellung fehlgeschlagen: Fehlende Daten."
ErrRoomFull == "Raum ist voll (max. 240 Spieler)."
ErrRoomNotActive == "Raum nicht mehr aktiv."
ErrPlayerNotFound == "Spieler nicht gefunden."

(***************************************************************************)
(* Scores: a JavaScript value [ty, n, fin]; a number is n when fin, and    *)
(* NaN or an infinity when not fin.                                        *)
(***************************************************************************)
ScoreNum(k) == [ty |-> "number", n |-> k, fin |-> TRUE]
ScoreInfinity == [ty |-> "number", n |-> 1, fin |-> FALSE]
ScoreText == [ty |-> "string", n |-> 0, fin |-> FALSE]
ScoreMissing == [ty |-> "undefined", n |-> 0, fin |-> FALSE]

\* a validation that lets negative numbers pass
FiniteScore(score) == score.ty = "number" /\ score.fin

\* typeof score === 'number' && isFinite(score) && score >= 0
ValidScore(score) == score.ty = "number" /\ score.fin /\ score.n >= 0

(***************************************************************************)
(* Room objects, players, timers.                                          *)
(***************************************************************************)
NewRoom(ws, hostSessionId) ==
    [hostWs |-> ws, hostSessionId |-> hostSessionId, players |-> <<>>,
     createdAt |-> now, hostDisconnectTimer |-> Null, expiryTimer |-> Null,
     questionStartTime |-> Null, currentQuestionIndex |-> NoIndex]

\* A room object that nothing refers to any more (it is not in the registry
\* and no pending timer's callback closes over it) is garbage: the model
\* keeps a blank in its place.
Garbage ==
    [hostWs |-> Null, hostSessionId |-> Undefined, players |-> <<>>,
     createdAt |-> 0, hostDisconnectTimer |-> Null, expiryTimer |-> Null,
     questionStartTime |-> Null, currentQuestionIndex |-> NoIndex]

Collect(h, registry, pending) ==
    [r \in 1..Len(h) |->
        IF r \in {registry[i].v : i \in 1..Len(registry)} \cup {t.room : t \in pending}
        THEN h[r] ELSE Garbage]

NewPlayer(name, score, ws, isConnected) ==
    [name |-> name, score |-> score, ws |-> ws, isConnected |-> isConnected]

\* setTimeout(callback, delay): the pending timer, whose callback closes over
\* the room object (room) and the room code (roomId)
Timer(kind, room, roomId, delay) ==
    [id |-> nextTimer, kind |-> kind, room |-> room, roomId |-> roomId,
     at |-> now + delay]

\* the list reconnect_host and restore_room report
PlayerList(room) ==
    [i \in 1..Len(room.players) |->
        [sessionId |-> room.players[i].k, name |-> room.players[i].v.name,
         score |-> room.players[i].v.score,
         isConnected |-> room.players[i].v.isConnected]]

\* a message event is delivered on an open channel only; verb is one the
\* channel's client sends
Recv(c, verb) == clients[c].st = "open" /\ verb \in lim.verbs[c]

Bind(cl, c, roomId, sessionId, role) ==
    [cl EXCEPT ![c].roomId = roomId, ![c].sessionId = sessionId, ![c].role = role,
               ![c].gone = FALSE]

(***************************************************************************)
(* wss.on('connection'): the next channel opens.                           *)
(***************************************************************************)
Connect(c) ==
    /\ ~down
    /\ clients[c].st = "idle"
    /\ \A d \in Channels : d < c => clients[d].st # "idle"
    /\ clients' = [clients EXCEPT ![c].st = "open"]
    /\ sent' = <<>>
    /\ last' = [op |-> "connection", ws |-> c]
    /\ UNCHANGED <<rooms, heap, timers, nextTimer, nextMint, now, down, lim>>

(***************************************************************************)
(* handleCreateRoom                                                        *)
(***************************************************************************)
handleCreateRoom(c) ==
    /\ Recv(c, "create_room")
    /\ last' = [op |-> "create_room", ws |-> c]
    /\ IF clients[c].hasRoom
       THEN /\ sent' = send(c, ErrorFrame(ErrAlreadyHosting))
            /\ UNCHANGED <<rooms, heap, clients, timers, nextTimer, nextMint>>
       ELSE /\ Len(heap) < lim.rooms
            /\ nextMint <= lim.mint
            /\ nextTimer <= lim.timers
            /\ \E roomId \in generateRoomId :
                 LET hostSessionId == generateSessionId
                     ref == Len(heap) + 1
                     room == [NewRoom(c, hostSessionId) EXCEPT !.expiryTimer = nextTimer]
                 IN /\ heap' = Append(heap, room)
                    /\ rooms' = MapSet(rooms, roomId, ref)
                    /\ clients' = [Bind(clients, c, roomId, hostSessionId, "host")
                                     EXCEPT ![c].hasRoom = TRUE]
                    /\ timers' = timers \cup {Timer("expiry", ref, roomId, ROOM_MAX_AGE_MS)}
                    /\ nextTimer' = nextTimer + 1
                    /\ nextMint' = nextMint + 1
                    /\ sent' = send(c, [type |-> "room_created", roomId |-> roomId,
                                        sessionId |-> hostSessionId])
    /\ UNCHANGED <<now, down, lim>>

(***************************************************************************)
(* handleReconnectHost.  cl is the channel table as the caller left it     *)
(* (handleRestoreRoom has set _lastRestore before it calls).               *)
(***************************************************************************)
\* a comparison that any session id passes
AnySession(room, sessionId) == TRUE

SessionMatches(room, sessionId) == room.hostSessionId = sessionId

ReconnectHostBody(c, msg, cl) ==
    LET roomId == ToUpperCase(msg.roomId)
    IN IF ~MapHas(rooms, roomId)
       THEN /\ sent' = IF Truthy(msg.sessionId)
                       THEN send(c, [type |-> "room_not_found_try_restore",
                                     roomId |-> roomId, sessionId |-> msg.sessionId])
                       ELSE send(c, ErrorFrame(ErrRoomNotFound))
            /\ clients' = cl
            /\ UNCHANGED <<rooms, heap, timers>>
       ELSE LET ref == MapGet(rooms, roomId)
                room == heap[ref]
            IN IF ~SessionMatches(room, msg.sessionId)
               THEN /\ sent' = send(c, ErrorFrame(ErrInvalidSession))
                    /\ clients' = cl
                    /\ UNCHANGED <<rooms, heap, timers>>
               ELSE /\ timers' = IF room.hostDisconnectTimer # Null
                                 THEN clearTimeout(timers, room.hostDisconnectTimer)
                                 ELSE timers
                    /\ heap' = [heap EXCEPT ![ref].hostDisconnectTimer = Null,
                                            ![ref].hostWs = c]
                    /\ clients' = Bind(cl, c, roomId, msg.sessionId, "host")
                    /\ sent' = send(c, [type |-> "host_reconnected", roomId |-> roomId,
                                        players |-> PlayerList(room)])
                    /\ UNCHANGED rooms

handleReconnectHost(c, msg) ==
    /\ Recv(c, "reconnect_host")
    /\ last' = [op |-> "reconnect_host", ws |-> c]
    /\ ReconnectHostBody(c, msg, clients)
    /\ UNCHANGED <<nextTimer, nextMint, now, down, lim>>

(***************************************************************************)
(* handleRestoreRoom                                                       *)
(***************************************************************************)
\* a limit that still holds when the five seconds are over
RestoreTooSoonStill(c) ==
    clients[c].lastRestore # Null /\ now - clients[c].lastRestore <= RESTORE_MIN_MS

\* ws._lastRestore && now - ws._lastRestore < 5000
RestoreTooSoon(c) ==
    clients[c].lastRestore # Null /\ now - clients[c].lastRestore < RESTORE_MIN_MS

\* a restore that takes the whole list
SliceAll(list) == list

\* msg.players.slice(0, MAX_PLAYERS_PER_ROOM)
SliceMax(list) ==
    IF Len(list) > MAX_PLAYERS_PER_ROOM THEN SubSeq(list, 1, MAX_PLAYERS_PER_ROOM)
    ELSE list

\* a restore that takes every entry
AnySnapshotPlayer(p) == TRUE

\* typeof p.id === 'string' && p.id.startsWith('sess-') && p.name
ValidSnapshotPlayer(p) == IsString(p.id) /\ StartsWithSess(p.id) /\ NameTruthy(p.name)

RestoredPlayer(p) ==
    NewPlayer(sanitizeName(p.name),
              IF ValidScore(p.score) THEN p.score ELSE ScoreNum(0),
              Null, FALSE)

\* the loop over playersToRestore: room.players.set(p.id, ...) for every valid
\* entry in turn
RestorePlayersFrom(list) ==
    LET valid == SelectSeq(list, LAMBDA p : ValidSnapshotPlayer(p))
    IN MapFromEntries([i \in 1..Len(valid) |->
                          [k |-> valid[i].id, v |-> RestoredPlayer(valid[i])]])

\* msg.players is [isArray, list]
RestorePlayers(players) ==
    IF players.isArray THEN RestorePlayersFrom(SliceMax(players.list))
    ELSE <<>>

handleRestoreRoom(c, msg) ==
    /\ Recv(c, "restore_room")
    /\ last' = [op |-> "restore_room", ws |-> c]
    /\ IF RestoreTooSoon(c)
       THEN /\ sent' = send(c, ErrorFrame(ErrRestoreRateLimited))
            /\ clients' = [clients EXCEPT ![c].lastFrame = now]
            /\ UNCHANGED <<rooms, heap, timers, nextTimer>>
       ELSE LET cl == [clients EXCEPT ![c].lastRestore = now, ![c].lastFrame = now]
                given == ToUpperCase(msg.roomId)
                hostSessionId == msg.sessionId
            IN IF given = "" \/ ~Truthy(hostSessionId)
               THEN /\ sent' = send(c, ErrorFrame(ErrRestoreMissingData))
                    /\ clients' = cl
                    /\ UNCHANGED <<rooms, heap, timers, nextTimer>>
               ELSE IF MapHas(rooms, given) /\ SessionMatches(RoomAt(given), hostSessionId)
               THEN /\ ReconnectHostBody(c, msg, cl)
                    /\ UNCHANGED nextTimer
               ELSE /\ Len(heap) < lim.rooms
                    /\ nextTimer <= lim.timers
                    /\ \E roomId \in (IF MapHas(rooms, given) THEN generateRoomId
                                      ELSE {given}) :
                         LET ref == Len(heap) + 1
                             room == [NewRoom(c, hostSessionId) EXCEPT
                                        !.players = RestorePlayers(msg.players),
                                        !.expiryTimer = nextTimer]
                         IN /\ heap' = Append(heap, room)
                            /\ rooms' = MapSet(rooms, roomId, ref)
                            /\ clients' = Bind(cl, c, roomId, hostSessionId, "host")
                            /\ timers' = timers \cup
                                         {Timer("expiry", ref, roomId, ROOM_MAX_AGE_MS)}
                            /\ nextTimer' = nextTimer + 1
                            /\ sent' = send(c, [type |-> "host_reconnected",
                                                roomId |-> roomId,
                                                players |-> PlayerList(room),
                                                isRestored |-> TRUE])
    /\ UNCHANGED <<nextMint, now, down, lim>>

(***************************************************************************)
(* handleJoin                                                              *)
(***************************************************************************)
\* a join that never looks a session id up
JoinSessionIdDropped(sessionId) == Undefined

\* the session id handleJoin looks up: a truthy value that is no string or
\* does not start with 'sess-' becomes null
JoinSessionId(sessionId) ==
    IF Truthy(sessionId) /\ (~IsString(sessionId) \/ ~StartsWithSess(sessionId))
    THEN Undefined
    ELSE sessionId

\* a limit that is off by one
RoomIsFullAbove(room) == MapSize(room.players) > MAX_PLAYERS_PER_ROOM

\* room.players.size >= MAX_PLAYERS_PER_ROOM
RoomIsFull(room) == MapSize(room.players) >= MAX_PLAYERS_PER_ROOM

handleJoin(c, msg) ==
    /\ Recv(c, "join")
    /\ last' = [op |-> "join", ws |-> c]
    /\ LET roomCode == ToUpperCase(StripSpaces(msg.roomCode))
       IN IF ~MapHas(rooms, roomCode)
          THEN /\ sent' = send(c, ErrorFrame(ErrRoomNotFound))
               /\ UNCHANGED <<heap, clients, nextMint>>
          ELSE LET ref == MapGet(rooms, roomCode)
                   room == heap[ref]
                   sessionId == JoinSessionId(msg.sessionId)
               IN IF Truthy(sessionId) /\ MapHas(room.players, sessionId)
                  THEN \* reconnecting existing player
                       LET old == MapGet(room.players, sessionId)
                           player == [old EXCEPT !.ws = c, !.isConnected = TRUE]
                           room2 == [room EXCEPT
                                       !.players = MapSet(room.players, sessionId, player)]
                       IN /\ heap' = [heap EXCEPT ![ref] = room2]
                          /\ clients' = Bind(clients, c, roomCode, sessionId, "player")
                          /\ sent' = send(c, [type |-> "joined", sessionId |-> sessionId,
                                              score |-> player.score,
                                              playerName |-> player.name,
                                              isReconnect |-> TRUE])
                                     \o send(room.hostWs,
                                             [type |-> "player_reconnected",
                                              sessionId |-> sessionId,
                                              name |-> player.name,
                                              score |-> player.score,
                                              playerCount |-> getConnectedPlayerCount(room2)])
                          /\ UNCHANGED nextMint
                  ELSE IF RoomIsFull(room)
                  THEN /\ sent' = send(c, ErrorFrame(ErrRoomFull))
                       /\ UNCHANGED <<heap, clients, nextMint>>
                  ELSE \* new player
                       /\ nextMint <= lim.mint
                       /\ LET newId == generateSessionId
                              name == sanitizeName(msg.playerName)
                              player == NewPlayer(name, ScoreNum(0), c, TRUE)
                              room2 == [room EXCEPT
                                          !.players = MapSet(room.players, newId, player)]
                          IN /\ heap' = [heap EXCEPT ![ref] = room2]
                             /\ clients' = Bind(clients, c, roomCode, newId, "player")
                             /\ nextMint' = nextMint + 1
                             /\ sent' = send(c, [type |-> "joined", sessionId |-> newId,
                                                 score |-> ScoreNum(0),
                                                 playerName |-> name,
                                                 isReconnect |-> FALSE])
                                        \o send(room.hostWs,
                                                [type |-> "player_joined",
                                                 sessionId |-> newId, name |-> name,
                                                 playerCount |->
                                                     getConnectedPlayerCount(room2)])
    /\ UNCHANGED <<rooms, timers, nextTimer, now, down, lim>>

(***************************************************************************)
(* handleSubmitAnswer.  msg.answerData is [isArray, len]; msg.answerTime   *)
(* is the client's clock, which the handler does not read.                 *)
(***************************************************************************)
\* a bound that turns away an answer of exactly 20 entries
ShortAnswerData(answerData) == answerData.isArray /\ answerData.len < 20

\* Array.isArray(msg.answerData) && msg.answerData.length <= 20
ValidAnswerData(answerData) == answerData.isArray /\ answerData.len <= 20

\* an elapsed time counted from the day the room was made
ElapsedSinceCreated(room, serverNow) == serverNow - room.createdAt

\* room.questionStartTime ? serverNow - room.questionStartTime : null
ElapsedMs(room, serverNow) ==
    IF room.questionStartTime # Null THEN serverNow - room.questionStartTime ELSE Null

handleSubmitAnswer(c, msg) ==
    /\ Recv(c, "submit_answer")
    /\ last' = [op |-> "submit_answer", ws |-> c]
    /\ LET ws == clients[c]
       IN IF ~MapHas(rooms, ws.roomId)
          THEN sent' = send(c, ErrorFrame(ErrRoomNotActive))
          ELSE LET room == RoomAt(ws.roomId)
               IN IF ~MapHas(room.players, ws.sessionId)
                  THEN sent' = send(c, ErrorFrame(ErrPlayerNotFound))
                  ELSE IF ~ValidAnswerData(msg.answerData)
                  THEN sent' = <<>>
                  ELSE sent' = send(room.hostWs,
                                    [type |-> "player_answered",
                                     sessionId |-> ws.sessionId,
                                     name |-> MapGet(room.players, ws.sessionId).name,
                                     answerData |-> msg.answerData,
                                     answerTime |-> now,
                                     elapsedMs |-> ElapsedMs(room, now)])
    /\ UNCHANGED <<rooms, heap, clients, timers, nextTimer, nextMint, now, down, lim>>

(***************************************************************************)
(* The host-only verbs.                                                    *)
(***************************************************************************)
\* a guard that only looks for the room
NotHostRoomOnly(c) == ~MapHas(rooms, clients[c].roomId)

\* !room || ws.sessionId !== room.hostSessionId: the frame is dropped
NotHost(c) ==
    \/ ~MapHas(rooms, clients[c].roomId)
    \/ clients[c].sessionId # RoomAt(clients[c].roomId).hostSessionId

\* a validation that looks at the question only
ValidQuestionText(msg) == msg.question.ty = "string" /\ msg.question.len <= 4000

\* msg.question is [ty, len]; msg.options is [isArray, len, allStrings, longest]:
\* whether it is an array, its length, whether every entry is a string, and
\* the length of its longest entry
ValidQuestion(msg) ==
    /\ msg.question.ty = "string" /\ msg.question.len <= 4000
    /\ msg.options.isArray /\ msg.options.len <= 20
    /\ ~(~msg.options.allStrings \/ msg.options.longest > 500)

QuestionIndex(msg) == IF msg.index.ty = "number" /\ msg.index.n >= 0 THEN msg.index.n ELSE 0
QuestionTotal(msg) == IF msg.total.ty = "number" /\ msg.total.n > 0 THEN msg.total.n ELSE 1
\* a duration that is passed on whenever it is a number
QuestionDurationAsSent(msg) ==
    IF msg.duration.ty = "number" THEN msg.duration.n ELSE 30

QuestionDuration(msg) ==
    IF msg.duration.ty = "number" /\ msg.duration.n > 0 /\ msg.duration.n <= 80
    THEN msg.duration.n ELSE 30

handleStartQuestion(c, msg) ==
    /\ Recv(c, "start_question")
    /\ last' = [op |-> "start_question", ws |-> c]
    /\ IF NotHost(c) \/ ~ValidQuestion(msg)
       THEN /\ sent' = <<>>
            /\ UNCHANGED heap
       ELSE LET ref == MapGet(rooms, clients[c].roomId)
                room == [heap[ref] EXCEPT !.questionStartTime = now,
                                          !.currentQuestionIndex = QuestionIndex(msg)]
            IN /\ heap' = [heap EXCEPT ![ref] = room]
               /\ sent' = broadcastToPlayers(room,
                              [type |-> "question", question |-> msg.question,
                               options |-> msg.options, index |-> QuestionIndex(msg),
                               total |-> QuestionTotal(msg),
                               startTime |-> room.questionStartTime,
                               duration |-> QuestionDuration(msg)])
    /\ UNCHANGED <<rooms, clients, timers, nextTimer, nextMint, now, down, lim>>

\* the loop over Object.entries(msg.playerScores), from entry i on
RECURSIVE UpdateScoresFrom(_, _, _)
UpdateScoresFrom(players, entries, i) ==
    IF i > Len(entries) THEN players
    ELSE UpdateScoresFrom(
            IF MapHas(players, entries[i].k) /\ ValidScore(entries[i].v)
            THEN MapSet(players, entries[i].k,
                        [MapGet(players, entries[i].k) EXCEPT !.score = entries[i].v])
            ELSE players,
            entries, i + 1)

\* an update that takes no score
KeepScores(players, playerScores) == players

\* msg.playerScores is [present, entries]
UpdateScores(players, playerScores) ==
    IF playerScores.present THEN UpdateScoresFrom(players, playerScores.entries, 1)
    ELSE players

\* one entry of the outbound leaderboard
LeaderboardEntry(entry) ==
    [name |-> IF entry.name.ty = "string" THEN Substring50(entry.name.chars) ELSE Spieler,
     score |-> IF entry.score.ty = "number" /\ entry.score.fin THEN entry.score
               ELSE ScoreNum(0)]

\* msg.leaderboard is [isArray, list]; null when it is no array
Leaderboard(leaderboard) ==
    IF leaderboard.isArray
    THEN [isNull |-> FALSE,
          list |-> [i \in 1..Len(SliceMax(leaderboard.list)) |->
                        LeaderboardEntry(leaderboard.list[i])]]
    ELSE [isNull |-> TRUE, list |-> <<>>]

\* the personalized results: one for every player whose channel is attached
\* and open, in the order of room.players
Results(players, msg, questionIndex) ==
    LET open == SelectSeq(players, LAMBDA e : IsOpen(e.v.ws))
    IN [i \in 1..Len(open) |->
           [to |-> open[i].v.ws,
            msg |-> [type |-> "result", correct |-> msg.correct,
                     isFinal |-> msg.isFinal, questionIndex |-> questionIndex,
                     leaderboard |-> Leaderboard(msg.leaderboard),
                     playerScore |-> open[i].v.score]]]

handleSendResults(c, msg) ==
    /\ Recv(c, "send_results")
    /\ last' = [op |-> "send_results", ws |-> c]
    /\ IF NotHost(c)
       THEN /\ sent' = <<>>
            /\ UNCHANGED heap
       ELSE LET ref == MapGet(rooms, clients[c].roomId)
                players == UpdateScores(heap[ref].players, msg.playerScores)
            IN /\ heap' = [heap EXCEPT ![ref].players = players]
               /\ sent' = Results(players, msg, heap[ref].currentQuestionIndex)
    /\ UNCHANGED <<rooms, clients, timers, nextTimer, nextMint, now, down, lim>>

handleTerminate(c) ==
    /\ Recv(c, "terminate")
    /\ last' = [op |-> "terminate", ws |-> c]
    /\ IF NotHost(c)
       THEN /\ sent' = <<>>
            /\ UNCHANGED <<rooms, heap, timers>>
       ELSE LET room == RoomAt(clients[c].roomId)
            IN /\ sent' = broadcastToPlayers(room, Frame("quiz_terminated"))
               /\ timers' = clearTimeout(clearTimeout(timers, room.expiryTimer),
                                         room.hostDisconnectTimer)
               /\ rooms' = MapDelete(rooms, clients[c].roomId)
               /\ heap' = Collect(heap, rooms', timers')
    /\ clients' = IF NotHost(c) THEN clients
                  ELSE [d \in DOMAIN clients |->
                           [clients[d] EXCEPT !.gone =
                               @ \/ clients[d].roomId = clients[c].roomId]]
    /\ UNCHANGED <<nextTimer, nextMint, now, down, lim>>

(***************************************************************************)
(* ws.on('close'): handleDisconnect.  The channel is no longer open when   *)
(* the handler runs.                                                       *)
(***************************************************************************)
\* a disconnect that forgets who the player was
LeftNameless(player) ==
    [player EXCEPT !.isConnected = FALSE, !.ws = Null, !.name = Spieler,
                   !.score = ScoreNum(0)]

\* player.isConnected = false; player.ws = null
Left(player) == [player EXCEPT !.isConnected = FALSE, !.ws = Null]

handleDisconnect(c) ==
    /\ Recv(c, "close") \/ clients[c].st = "terminated"
    /\ last' = [op |-> "close", ws |-> c]
    /\ clients' = [clients EXCEPT ![c] = ClosedChannel]
    /\ LET ws == clients[c]
       IN IF ws.roomId = NoRoomId \/ ~MapHas(rooms, ws.roomId)
          THEN /\ sent' = <<>>
               /\ UNCHANGED <<heap, timers, nextTimer>>
          ELSE LET ref == MapGet(rooms, ws.roomId)
                   room == heap[ref]
               IN IF ws.role = "host"
                  THEN /\ nextTimer <= lim.timers
                       /\ heap' = [heap EXCEPT ![ref].hostWs = Null,
                                               ![ref].hostDisconnectTimer = nextTimer]
                       /\ timers' = timers \cup
                                    {Timer("grace", ref, ws.roomId, HOST_GRACE_MS)}
                       /\ nextTimer' = nextTimer + 1
                       /\ sent' = <<>>
                  ELSE IF ws.role = "player" /\ MapHas(room.players, ws.sessionId)
                  THEN LET player == Left(MapGet(room.players, ws.sessionId))
                           room2 == [room EXCEPT
                                       !.players = MapSet(room.players, ws.sessionId, player)]
                       IN /\ heap' = [heap EXCEPT ![ref] = room2]
                          /\ sent' = SendOn(clients', room.hostWs,
                                            [type |-> "player_left",
                                             sessionId |-> ws.sessionId,
                                             name |-> player.name,
                                             playerCount |->
                                                 getConnectedPlayerCount(room2)])
                          /\ UNCHANGED <<timers, nextTimer>>
                  ELSE /\ sent' = <<>>
                       /\ UNCHANGED <<heap, timers, nextTimer>>
    /\ UNCHANGED <<rooms, nextMint, now, down, lim>>

(***************************************************************************)
(* The timer callbacks.  A timer fires once its time has come; the clock   *)
(* does not pass a pending timer's time.                                   *)
(***************************************************************************)
\* the callback of room.expiryTimer (set by create_room and restore_room)
ExpiryFire(t) ==
    /\ t \in timers /\ t.kind = "expiry" /\ t.at <= now
    /\ last' = [op |-> "expiry", ws |-> Null]
    /\ sent' = broadcastToPlayers(heap[t.room], Frame("quiz_terminated"))
    /\ timers' = clearTimeout(timers \ {t}, heap[t.room].hostDisconnectTimer)
    /\ rooms' = MapDelete(rooms, t.roomId)
    /\ heap' = Collect(heap, rooms', timers')
    /\ UNCHANGED <<clients, nextTimer, nextMint, now, down, lim>>

\* a callback that acts when the host is back
GraceAppliesToHosted(t) ==
    /\ heap[t.room].hostWs # Null
    /\ MapHas(rooms, t.roomId) /\ MapGet(rooms, t.roomId) = t.room

\* a callback that looks the room up by its code only
GraceAppliesByCode(t) ==
    /\ heap[t.room].hostWs = Null
    /\ MapHas(rooms, t.roomId)

\* !room.hostWs && rooms.get(disconnectedRoomId) === room
GraceApplies(t) ==
    /\ heap[t.room].hostWs = Null
    /\ MapHas(rooms, t.roomId) /\ MapGet(rooms, t.roomId) = t.room

\* the callback of room.hostDisconnectTimer (set by handleDisconnect)
GraceFire(t) ==
    /\ t \in timers /\ t.kind = "grace" /\ t.at <= now
    /\ last' = [op |-> "grace", ws |-> Null]
    /\ IF GraceApplies(t)
       THEN /\ sent' = broadcastToPlayers(heap[t.room], Frame("quiz_terminated"))
            /\ timers' = clearTimeout(timers \ {t}, heap[t.room].expiryTimer)
            /\ rooms' = MapDelete(rooms, t.roomId)
       ELSE /\ sent' = <<>>
            /\ timers' = timers \ {t}
            /\ UNCHANGED rooms
    /\ heap' = Collect(heap, rooms', timers')
    /\ UNCHANGED <<clients, nextTimer, nextMint, now, down, lim>>

\* the time of the next pending timer
NextDeadline == CHOOSE d \in {t.at : t \in timers} : \A t \in timers : d <= t.at

\* time passes: by a step, or up to the next pending timer
Advance ==
    /\ \A t \in timers : t.at > now
    /\ \E to \in {now + d : d \in lim.steps} \cup {t.at : t \in timers} :
         /\ to > now
         /\ \A t \in timers : to <= t.at
         /\ to <= lim.clock \/ (timers # {} /\ to = NextDeadline)
         /\ now' = to
    /\ sent' = <<>>
    /\ last' = [op |-> "time", ws |-> Null]
    /\ UNCHANGED <<rooms, heap, clients, timers, nextTimer, nextMint, down, lim>>

(***************************************************************************)
(* process.on('SIGTERM')                                                   *)
(***************************************************************************)
\* what the loop over the registry sends, from entry i on
RECURSIVE ShutdownFrames(_)
ShutdownFrames(i) ==
    IF i > Len(rooms) THEN <<>>
    ELSE broadcastToPlayers(heap[rooms[i].v], Frame("quiz_terminated"))
         \o send(heap[rooms[i].v].hostWs, Frame("quiz_terminated"))
         \o ShutdownFrames(i + 1)

\* a shutdown that clears the grace timers only
ShutdownClearedGrace ==
    {heap[rooms[i].v].hostDisconnectTimer : i \in 1..Len(rooms)}

\* the timers the loop over the registry clears
ShutdownCleared ==
    {heap[rooms[i].v].expiryTimer : i \in 1..Len(rooms)}
    \cup {heap[rooms[i].v].hostDisconnectTimer : i \in 1..Len(rooms)}

Sigterm ==
    /\ ~down
    /\ down' = TRUE
    /\ last' = [op |-> "SIGTERM", ws |-> Null]
    /\ sent' = ShutdownFrames(1)
    /\ timers' = {t \in timers : t.id \notin ShutdownCleared}
    /\ rooms' = <<>>
    /\ heap' = Collect(heap, rooms', timers')
    /\ UNCHANGED <<clients, nextTimer, nextMint, now, lim>>

(***************************************************************************)
(* ws.on('message'): the rate limit, JSON.parse and the switch on msg.type. *)
(***************************************************************************)
RATE_LIMIT_PER_SECOND == 20
ErrTooManyMessages == "Zu viele Nachrichten. Bitte warte einen Moment."
ErrInvalidFormat == "Ungueltiges Nachrichtenformat."

\* counting up to k
UpTo(k, n) == IF n > k THEN k ELSE n

\* a frame arrives on a channel with meter m, and is dispatched or not; got
\* and passed are followed until they have left the limit behind
Observe(m, dispatched) ==
    LET fresh == m.since = Null \/ now - m.since >= 1000
    IN [m EXCEPT !.since = IF fresh THEN now ELSE @,
                 !.got = IF fresh THEN 1 ELSE UpTo(RATE_LIMIT_PER_SECOND + 2, @ + 1),
                 !.passed = UpTo(RATE_LIMIT_PER_SECOND + 1,
                                 (IF fresh THEN 0 ELSE @)
                                    + (IF dispatched THEN 1 ELSE 0))]

\* a step of the running process that is no frame
Quiet == ~crashed /\ UNCHANGED <<meter, crashed, heart>>

\* !(++ws._msgCount > RATE_LIMIT_PER_SECOND), with the count after ++
WithinLimit(count) == ~(count > RATE_LIMIT_PER_SECOND)

\* the frame passes the rate limit check and goes on to JSON.parse
Counted(c) ==
    /\ ~crashed
    /\ crashed' = crashed
    /\ heart' = heart
    /\ IF lim.burst
       THEN /\ WithinLimit(meter[c].count + 1)
            /\ meter' = [meter EXCEPT
                            ![c] = Observe([@ EXCEPT !.count = @ + 1], TRUE)]
       ELSE UNCHANGED meter

\* the frame fails the rate limit check: an error frame, and the channel is
\* terminated when it has sent more than three times the limit
Limited(c) ==
    /\ ~crashed
    /\ lim.burst
    /\ clients[c].st = "open"
    /\ ~WithinLimit(meter[c].count + 1)
    /\ last' = [op |-> "limited", ws |-> c]
    /\ sent' = send(c, ErrorFrame(ErrTooManyMessages))
    /\ IF meter[c].count + 1 > RATE_LIMIT_PER_SECOND * 3
       THEN /\ clients' = [clients EXCEPT ![c].st = "terminated"]
            /\ meter' = [meter EXCEPT
                            ![c] = Observe([@ EXCEPT !.count = @ + 1, !.tick = Null],
                                           FALSE)]
       ELSE /\ clients' = clients
            /\ meter' = [meter EXCEPT
                            ![c] = Observe([@ EXCEPT !.count = @ + 1], FALSE)]
    /\ UNCHANGED <<rooms, heap, timers, nextTimer, nextMint, now, down, lim, crashed,
                   heart>>

\* setInterval(() => { ws._msgCount = 0; }, 1000)
MsgReset(c) ==
    /\ ~crashed
    /\ meter[c].tick = now
    /\ meter' = [meter EXCEPT ![c].count = 0, ![c].tick = now + 1000]
    /\ sent' = <<>>
    /\ last' = [op |-> "interval", ws |-> c]
    /\ UNCHANGED <<rooms, heap, clients, timers, nextTimer, nextMint, now, down, lim,
                   crashed, heart>>

\* the connection handler starts the interval
Connected(c) ==
    /\ Connect(c)
    /\ ~crashed
    /\ crashed' = crashed
    /\ meter' = [meter EXCEPT ![c].tick = IF lim.burst THEN now + 1000 ELSE Null]
    /\ heart' = [heart EXCEPT !.ws[c] = NewPulse]

\* the close handler: clearInterval, then handleDisconnect
Closed(c) ==
    /\ handleDisconnect(c)
    /\ ~crashed
    /\ crashed' = crashed
    /\ meter' = [meter EXCEPT ![c] = NewMeter]
    /\ heart' = [heart EXCEPT !.ws[c] = NewPulse]

(***************************************************************************)
(* The heartbeat: ws.isAlive, the pong event and heartbeatInterval.        *)
(***************************************************************************)
\* wss.clients: the channels between their connection and their close event
wssClients == {c \in Channels : clients[c].st \in {"open", "terminated"}}

\* ws.on('pong', () => { ws.isAlive = true; })
Pong(c) ==
    /\ ~crashed
    /\ Recv(c, "pong")
    /\ now <= lim.clock
    /\ heart' = [heart EXCEPT !.ws[c].isAlive = TRUE, !.ws[c].ponged = TRUE]
    /\ sent' = <<>>
    /\ last' = [op |-> "pong", ws |-> c]
    /\ UNCHANGED <<rooms, heap, clients, timers, nextTimer, nextMint, now, down, lim,
                   meter, crashed>>

\* ws.ping() writes to an open channel only
Pings ==
    LET to == SelectSeq([c \in 1..Len(clients) |-> c],
                        LAMBDA c : IsOpen(c) /\ heart.ws[c].isAlive)
    IN [i \in 1..Len(to) |-> [to |-> to[i], msg |-> Frame("ping")]]

\* a sweep that terminates no channel
SweepSpares(c) == FALSE

\* if (!ws.isAlive) return ws.terminate()
SweepTerminates(c) == c \in wssClients /\ ~heart.ws[c].isAlive

\* the callback of heartbeatInterval
Heartbeat ==
    /\ ~crashed
    /\ heart.beat = now
    /\ clients' = [c \in DOMAIN clients |->
                     IF SweepTerminates(c)
                     THEN [clients[c] EXCEPT !.st = "terminated"] ELSE clients[c]]
    /\ heart' = [beat |-> now + HEARTBEAT_MS,
                 ws |-> [c \in DOMAIN clients |->
                           IF c \in wssClients /\ heart.ws[c].isAlive
                           THEN [isAlive |-> FALSE, ponged |-> FALSE,
                                 pinged |-> IsOpen(c)]
                           ELSE heart.ws[c]]]
    /\ sent' = Pings
    /\ last' = [op |-> "heartbeat", ws |-> Null]
    /\ UNCHANGED <<rooms, heap, timers, nextTimer, nextMint, now, down, lim, meter,
                   crashed>>

\* the next sweep would change nothing
SweepIdle == \A c \in wssClients : clients[c].st = "terminated" /\ ~heart.ws[c].isAlive

\* time passes up to the next sweep
ToBeat ==
    /\ ~crashed
    /\ heart.beat # Null
    /\ heart.beat > now
    /\ ~SweepIdle \/ heart.beat <= lim.clock
    /\ \A t \in timers : t.at > now /\ t.at >= heart.beat
    /\ \A c \in Channels :
          meter[c].tick # Null => (meter[c].tick > now /\ meter[c].tick >= heart.beat)
    /\ now' = heart.beat
    /\ sent' = <<>>
    /\ last' = [op |-> "time", ws |-> Null]
    /\ UNCHANGED <<rooms, heap, clients, timers, nextTimer, nextMint, down, lim, meter,
                   crashed, heart>>

\* process.on('SIGTERM'), with clearInterval(heartbeatInterval)
Shutdown ==
    /\ lim.term
    /\ Sigterm
    /\ ~crashed
    /\ heart' = [heart EXCEPT !.beat = Null]
    /\ UNCHANGED <<meter, crashed>>

\* the interval callbacks of a channel that run while the clock moves on to
\* time to without a frame arriving: the counter is 0 after the first of
\* them, and the next one is due a whole number of periods after the last
Skipped(m, to) ==
    IF m.tick = Null \/ m.tick >= to THEN m
    ELSE [m EXCEPT !.count = 0,
                   !.tick = @ + 1000 * (((to - @) + 999) \div 1000)]

\* the clock does not pass the time of an interval or of a sweep either, up
\* to the time to which the run follows the clock; beyond that time it moves
\* from timer to timer, and the intervals in between and the sweeps in
\* between that change nothing run unobserved
Passing ==
    /\ Advance
    /\ \A c \in Channels : meter[c].tick # Null => meter[c].tick > now
    /\ heart.beat # Null => heart.beat > now
    /\ ~crashed
    /\ crashed' = crashed
    /\ IF \A c \in Channels : meter[c].tick # Null => now' <= meter[c].tick
       THEN meter' = meter
       ELSE /\ now' > lim.clock
            /\ meter' = [c \in DOMAIN meter |-> Skipped(meter[c], now')]
    /\ IF heart.beat # Null => now' <= heart.beat
       THEN heart' = heart
       ELSE /\ now' > lim.clock
            /\ SweepIdle
            /\ heart' = [heart EXCEPT
                            !.beat = @ + HEARTBEAT_MS
                                           * (((now' - @) + HEARTBEAT_MS - 1)
                                                 \div HEARTBEAT_MS)]

\* frames that are no JSON, that have no type, and that have a type the
\* switch does not know
RawFrames == {"unparseable", "no_type", "unknown_type"}

handleRaw(c, raw) ==
    /\ Recv(c, "raw")
    /\ last' = [op |-> raw, ws |-> c]
    /\ sent' = IF raw = "unparseable" THEN send(c, ErrorFrame(ErrInvalidFormat))
               ELSE <<>>
    /\ UNCHANGED <<rooms, heap, clients, timers, nextTimer, nextMint, now, down, lim>>

\* frames whose handling ends in a TypeError: the frame null (msg.type),
\* a reconnect_host whose roomId is a number (toUpperCase), a join whose
\* roomCode is a number (replace), a restore_room with a sessionId, for a
\* code that no room has, whose players hold null (p.id), a send_results
\* whose leaderboard holds null (entry.name)
ThrowingFrames ==
    {"null", "reconnect_host_roomId", "join_roomCode", "restore_room_players",
     "send_results_leaderboard"}

\* the statement that throws is reached
Thrown(c, frame) ==
    CASE frame = "restore_room_players" ->
            \* past the rate limit of restore_room
            ~(clients[c].lastRestore # Null
              /\ now - clients[c].lastRestore < RESTORE_MIN_MS)
      [] frame = "send_results_leaderboard" -> ~NotHost(c)
      [] OTHER -> TRUE

\* nothing catches the exception: the process is gone, with its rooms,
\* its timers and its channels
Throws(c, frame) ==
    /\ Recv(c, "throw")
    /\ Thrown(c, frame)
    /\ crashed' = TRUE
    /\ last' = [op |-> frame, ws |-> c]
    /\ sent' = <<>>
    /\ rooms' = <<>>
    /\ heap' = Collect(heap, <<>>, {})
    /\ timers' = {}
    /\ clients' = [d \in DOMAIN clients |-> ClosedChannel]
    /\ meter' = [d \in DOMAIN meter |-> NewMeter]
    /\ heart' = [beat |-> Null, ws |-> [d \in DOMAIN clients |-> NewPulse]]
    /\ UNCHANGED <<nextTimer, nextMint, now, down, lim>>

(***************************************************************************)
(* What clients send.                                                      *)
(***************************************************************************)
\* session ids of an earlier process, which this process never mints
ForeignSid == Str("sess-", -1)
SnapshotSid(i) == Str("sess-", -(1000 + i))
\* a string that is no session id, and a number
BadSid == Str("bad-", 1)
NumSid == Num(7)

\* the session ids this process has handed out so far
MintedSids == {MintedSessionId(k) : k \in 1..(nextMint - 1)}

RawEve == NameStr(<<"<", "b", ">", "E", "v", "e", "<", "/", "b", ">">>)
RawAnn == NameStr(<<" ", "A", "n", "n", "\t">>)

NoArray == [isArray |-> FALSE, list |-> <<>>]
Array(list) == [isArray |-> TRUE, list |-> list]

\* a snapshot of a valid player with id sid and of entries that are not:
\* a bad id, a number for an id, no name, scores that are negative, infinite,
\* no number or missing, and the id sid a second time
SmallSnapshot(sid) ==
    Array(<<[id |-> sid, name |-> RawAnn, score |-> ScoreNum(5)],
            [id |-> BadSid, name |-> RawEve, score |-> ScoreNum(1)],
            [id |-> SnapshotSid(2), name |-> RawEve, score |-> ScoreNum(-3)],
            [id |-> NumSid, name |-> RawEve, score |-> ScoreNum(2)],
            [id |-> SnapshotSid(3), name |-> NameAbsent, score |-> ScoreNum(3)],
            [id |-> SnapshotSid(4), name |-> RawAnn, score |-> ScoreInfinity],
            [id |-> SnapshotSid(5), name |-> RawEve, score |-> ScoreText],
            [id |-> SnapshotSid(6), name |-> RawEve, score |-> ScoreMissing],
            [id |-> sid, name |-> RawEve, score |-> ScoreNum(9)]>>)

\* a snapshot of n distinct valid players
BigSnapshot(n) ==
    Array([i \in 1..n |-> [id |-> SnapshotSid(i), name |-> NameStr(<<"P">>),
                           score |-> ScoreNum(i)]])

Snapshots ==
    {NoArray}
    \cup {SmallSnapshot(sid) : sid \in (MintedSids \cap {MintedSessionId(1)}) \cup {ForeignSid}}
    \cup (IF lim.big
          THEN {BigSnapshot(MAX_PLAYERS_PER_ROOM - 1), BigSnapshot(MAX_PLAYERS_PER_ROOM + 1)}
          ELSE {})

ReconnectMsgs ==
    [roomId : {Lower(code) : code \in lim.names},
     sessionId : MintedSids \cup {ForeignSid, Undefined} \cup lim.sids]

RestoreMsgs ==
    {[roomId |-> "", sessionId |-> ForeignSid, players |-> NoArray],
     [roomId |-> "ab12", sessionId |-> Undefined, players |-> NoArray]}
    \cup [roomId : {Lower(code) : code \in lim.names},
          sessionId : MintedSids \cup {ForeignSid},
          players : Snapshots]
    \cup [roomId : {Lower(code) : code \in lim.names},
          sessionId : lim.sids,
          players : {NoArray}]

\* in a budget of few frames a join carries a minted session id or none
JoinMsgs ==
    [roomCode : {Spaced(code) : code \in lim.codes},
     sessionId : MintedSids \cup {Undefined}
                 \cup (IF lim.few THEN {} ELSE {ForeignSid, SnapshotSid(1), BadSid}),
     playerName : {RawEve}]

\* the times a client writes into its frames: none, or its own clock
ClientTimes == {Undefined, Num(MaxClock + 1)}

\* in a budget of few frames the answers carry no time of the client's
AnswerMsgs ==
    [answerData : {[isArray |-> TRUE, len |-> 20], [isArray |-> TRUE, len |-> 21],
                   [isArray |-> FALSE, len |-> 0]},
     answerTime : IF lim.few THEN {Undefined} ELSE ClientTimes]

GoodQuestion == [ty |-> "string", len |-> 4000]
LongQuestion == [ty |-> "string", len |-> 4001]
NumberQuestion == [ty |-> "number", len |-> 0]
GoodOptions == [isArray |-> TRUE, len |-> 20, allStrings |-> TRUE, longest |-> 500]
NoOptions == [isArray |-> FALSE, len |-> 0, allStrings |-> TRUE, longest |-> 0]
ManyOptions == [isArray |-> TRUE, len |-> 21, allStrings |-> TRUE, longest |-> 500]
LongOption == [isArray |-> TRUE, len |-> 20, allStrings |-> TRUE, longest |-> 501]
NullOption == [isArray |-> TRUE, len |-> 2, allStrings |-> FALSE, longest |-> 1]

\* question and options that handleStartQuestion turns away
BadContents ==
    {[question |-> LongQuestion, options |-> GoodOptions],
     [question |-> NumberQuestion, options |-> GoodOptions],
     [question |-> GoodQuestion, options |-> NoOptions],
     [question |-> GoodQuestion, options |-> ManyOptions],
     [question |-> GoodQuestion, options |-> LongOption],
     [question |-> GoodQuestion, options |-> NullOption]}

\* index, total and duration of a start_question: the values a host sends,
\* and values that are out of range, missing or no numbers
RelayFields ==
    {[index |-> Num(1), total |-> Num(2), duration |-> Num(80)],
     [index |-> Undefined, total |-> Num(0), duration |-> Num(81)],
     [index |-> Num(-1), total |-> Num(-1), duration |-> Num(0)],
     [index |-> Str("", 1), total |-> Str("", 2), duration |-> Str("", 20)],
     [index |-> Num(0), total |-> Undefined, duration |-> Undefined],
     [index |-> Num(1), total |-> Num(2), duration |-> Num(-5)]}

\* in a budget of few frames the host sends one question that is accepted
\* and one that is not
FewQuestionMsgs ==
    {[question |-> q, options |-> GoodOptions, index |-> Num(1), total |-> Num(2),
      startTime |-> Undefined, duration |-> Num(80)] : q \in {GoodQuestion, LongQuestion}}

QuestionMsgs ==
    IF lim.few THEN FewQuestionMsgs
    ELSE UNION {{[question |-> GoodQuestion, options |-> GoodOptions, index |-> f.index,
                  total |-> f.total, startTime |-> t, duration |-> f.duration]
                    : f \in RelayFields} : t \in ClientTimes}
         \cup {[question |-> b.question, options |-> b.options, index |-> Num(2),
                 total |-> Num(2), startTime |-> Undefined, duration |-> Num(20)]
                   : b \in BadContents}

NoScores == [present |-> FALSE, entries |-> <<>>]

\* what a host reports for the player it knows as MintedSessionId(2)
ReportedScores == {ScoreNum(7), ScoreNum(-1), ScoreInfinity, ScoreText}

ResultMsgs ==
    {[correct |-> Undefined, isFinal |-> Undefined, playerScores |-> NoScores,
      leaderboard |-> NoArray]}
    \cup {[correct |-> Num(1), isFinal |-> Num(1),
           playerScores |-> [present |-> TRUE,
                             entries |-> <<[k |-> MintedSessionId(2), v |-> score],
                                           [k |-> SnapshotSid(1), v |-> ScoreInfinity],
                                           [k |-> ForeignSid, v |-> ScoreNum(-1)]>>],
           leaderboard |-> Array(<<[name |-> RawEve, score |-> ScoreNum(-2)],
                                   [name |-> NameAbsent, score |-> ScoreText]>>)] :
             score \in ReportedScores}

(***************************************************************************)
(* The relay.                                                              *)
(***************************************************************************)
Next ==
    \/ \E c \in Channels : Connected(c)
    \/ \E c \in Channels : Counted(c) /\ handleCreateRoom(c)
    \/ \E c \in Channels : \E msg \in ReconnectMsgs :
          Counted(c) /\ handleReconnectHost(c, msg)
    \/ \E c \in Channels : \E msg \in RestoreMsgs :
          Counted(c) /\ handleRestoreRoom(c, msg)
    \/ \E c \in Channels : \E msg \in JoinMsgs : Counted(c) /\ handleJoin(c, msg)
    \/ \E c \in Channels : \E msg \in AnswerMsgs :
          Counted(c) /\ handleSubmitAnswer(c, msg)
    \/ \E c \in Channels : \E msg \in QuestionMsgs :
          Counted(c) /\ handleStartQuestion(c, msg)
    \/ \E c \in Channels : \E msg \in ResultMsgs :
          Counted(c) /\ handleSendResults(c, msg)
    \/ \E c \in Channels : Counted(c) /\ handleTerminate(c)
    \/ \E c \in Channels : \E raw \in RawFrames : Counted(c) /\ handleRaw(c, raw)
    \/ \E c \in Channels : \E frame \in ThrowingFrames : ~crashed /\ Throws(c, frame)
    \/ \E c \in Channels : Limited(c)
    \/ \E c \in Channels : MsgReset(c)
    \/ \E c \in Channels : Closed(c)
    \/ \E t \in timers : ExpiryFire(t) /\ Quiet
    \/ \E t \in timers : GraceFire(t) /\ Quiet
    \/ Passing
    \/ Shutdown
    \/ \E c \in Channels : Pong(c)
    \/ Heartbeat
    \/ ToBeat

Spec == Init /\ [][Next]_vars


(***************************************************************************)
(* Properties.                                                             *)
(***************************************************************************)
\* the frame a step sent to channel c, if it sent exactly that and no other
Only(c, data) == <<[to |-> c, msg |-> data]>>

\* the room code a join names
JoinCode(msg) == ToUpperCase(StripSpaces(msg.roomCode))

\* the channel's bound sessionId is not the hostSessionId of the room at its
\* bound roomId, or there is no such room
BoundElsewhere(c) ==
    \A i \in 1..Len(rooms) :
        rooms[i].k = clients[c].roomId =>
            heap[rooms[i].v].hostSessionId # clients[c].sessionId

HostOnlyFrame(c) ==
    \/ \E msg \in QuestionMsgs : handleStartQuestion(c, msg)
    \/ \E msg \in ResultMsgs : handleSendResults(c, msg)
    \/ handleTerminate(c)

\* C1: a start_question, send_results or terminate frame from a channel whose
\* bound sessionId is not the hostSessionId of the room at its bound roomId
\* (or that has no such room) changes nothing -- registry, room objects
\* (questionStartTime, currentQuestionIndex, scores), timers, channels -- and
\* sends no frame to any channel.
C1_NonHostIsIgnored ==
    [][\A c \in Channels :
          BoundElsewhere(c) /\ HostOnlyFrame(c) =>
              /\ rooms' = rooms /\ heap' = heap /\ timers' = timers
              /\ clients' = clients
              /\ sent' = <<>>]_vars

\* a player of a live room has just sent a host-only verb
C1_Witness ==
    /\ last.op \in {"start_question", "send_results", "terminate"}
    /\ clients[last.ws].role = "player"
    /\ MapHas(rooms, clients[last.ws].roomId)
    /\ MapHas(RoomAt(clients[last.ws].roomId).players, clients[last.ws].sessionId)
    /\ BoundElsewhere(last.ws)

\* C2: every room's player table holds at most MAX_PLAYERS_PER_ROOM entries,
\* in every reachable state.
C2_PlayersBounded ==
    \A r \in 1..Len(heap) : MapSize(heap[r].players) <= MAX_PLAYERS_PER_ROOM

\* a room restored from a snapshot of more than MAX_PLAYERS_PER_ROOM players
C2_Witness ==
    /\ last.op = "restore_room"
    /\ \E r \in 1..Len(heap) :
         /\ MapSize(heap[r].players) = MAX_PLAYERS_PER_ROOM
         /\ \A i \in 1..MAX_PLAYERS_PER_ROOM : heap[r].players[i].k = SnapshotSid(i)

\* C3: a join that names a live room and matches none of its players is
\* admitted -- one record with score 0 is added under a new sessionId, the
\* channel is bound to it, 'joined' with isReconnect false is returned --
\* when the room holds fewer than MAX_PLAYERS_PER_ROOM players; otherwise the
\* room holds exactly MAX_PLAYERS_PER_ROOM, the reply is the RoomFull error
\* and the player table and the channel's binding are unchanged.
C3_JoinAdmission ==
    [][\A c \in Channels : \A msg \in JoinMsgs :
          (/\ handleJoin(c, msg)
           /\ MapHas(rooms, JoinCode(msg))
           /\ ~MapHas(RoomAt(JoinCode(msg)).players, msg.sessionId)) =>
              LET ref == MapGet(rooms, JoinCode(msg))
                  before == heap[ref].players
                  after == heap'[ref].players
                  newId == clients'[c].sessionId
              IN IF MapSize(before) < MAX_PLAYERS_PER_ROOM
                 THEN /\ MapSize(after) = MapSize(before) + 1
                      /\ \A i \in 1..Len(before) : after[i] = before[i]
                      /\ ~MapHas(before, newId) /\ MapHas(after, newId)
                      /\ MapGet(after, newId).score = ScoreNum(0)
                      /\ clients'[c].roomId = JoinCode(msg)
                      /\ sent'[1].to = c
                      /\ sent'[1].msg.type = "joined"
                      /\ sent'[1].msg.sessionId = newId
                      /\ sent'[1].msg.score = ScoreNum(0)
                      /\ sent'[1].msg.isReconnect = FALSE
                 ELSE /\ MapSize(before) = MAX_PLAYERS_PER_ROOM
                      /\ sent' = Only(c, ErrorFrame(ErrRoomFull))
                      /\ heap' = heap
                      /\ clients' = clients]_vars

\* the 240th joiner was admitted and the next has just been turned away
C3_Witness ==
    /\ last.op = "join"
    /\ sent = Only(last.ws, ErrorFrame(ErrRoomFull))
    /\ \E r \in 1..Len(heap) :
         /\ MapSize(heap[r].players) = MAX_PLAYERS_PER_ROOM
         /\ heap[r].players[MAX_PLAYERS_PER_ROOM].k = MintedSessionId(1)

\* C4: a join naming a live room with the sessionId of one of its players
\* reattaches that record: no player is added, every record keeps its name and
\* score, the record is connected and attached to the channel, the channel is
\* bound to the sessionId, and the reply is 'joined' with the same sessionId,
\* the stored score and isReconnect true.
C4_RejoinReattaches ==
    [][\A c \in Channels : \A msg \in JoinMsgs :
          (/\ handleJoin(c, msg)
           /\ MapHas(rooms, JoinCode(msg))
           /\ MapHas(RoomAt(JoinCode(msg)).players, msg.sessionId)) =>
              LET ref == MapGet(rooms, JoinCode(msg))
                  before == heap[ref].players
                  after == heap'[ref].players
                  i == MapIndex(before, msg.sessionId)
              IN /\ Len(after) = Len(before)
                 /\ \A j \in 1..Len(before) :
                      /\ after[j].k = before[j].k
                      /\ after[j].v.name = before[j].v.name
                      /\ after[j].v.score = before[j].v.score
                      /\ j # i => after[j] = before[j]
                 /\ after[i].v.isConnected
                 /\ after[i].v.ws = c
                 /\ clients'[c].sessionId = msg.sessionId
                 /\ clients'[c].roomId = JoinCode(msg)
                 /\ sent'[1] = [to |-> c,
                                msg |-> [type |-> "joined",
                                         sessionId |-> msg.sessionId,
                                         score |-> before[i].v.score,
                                         playerName |-> before[i].v.name,
                                         isReconnect |-> TRUE]]]_vars

\* a player restored from a snapshot with a score has just rejoined
C4_Witness ==
    /\ last.op = "join"
    /\ Len(sent) >= 1
    /\ sent[1].msg.type = "joined"
    /\ sent[1].msg.isReconnect
    /\ sent[1].msg.score.n > 0
    /\ sent[1].msg.sessionId \notin MintedSids
    /\ \E r \in 1..Len(heap) :
         /\ MapHas(heap[r].players, clients[last.ws].sessionId)
         /\ MapGet(heap[r].players, clients[last.ws].sessionId).ws = last.ws


\* a reconnect_host frame that carries the code of a live room and that
\* room's hostSessionId
CarriesHostSession(msg) ==
    \E i \in 1..Len(rooms) :
        /\ rooms[i].k = ToUpperCase(msg.roomId)
        /\ heap[rooms[i].v].hostSessionId = msg.sessionId

\* the room object ref is in the registry
Registered(ref) == \E i \in 1..Len(rooms) : rooms[i].v = ref

PlayerChannels(room) ==
    {c \in Channels : /\ clients[c].st = "open"
                      /\ \E i \in 1..Len(room.players) : room.players[i].v.ws = c}

FairSpec ==
    /\ Spec
    /\ WF_vars(Passing)
    /\ WF_vars(\E t \in timers : ExpiryFire(t) /\ Quiet)
    /\ WF_vars(\E t \in timers : GraceFire(t) /\ Quiet)
    /\ WF_vars(\E c \in Channels : MsgReset(c))
    /\ WF_vars(Heartbeat)
    /\ WF_vars(ToBeat)

\* the room objects a run can hold
RoomRefs == 1..(CHOOSE n \in {b.rooms : b \in Budgets} : \A b \in Budgets : b.rooms <= n)

\* C7: every room that enters the registry is eventually removed from it,
\* whatever frames arrive or fail to arrive, given that armed timers fire.
C7_RoomsAreRemoved ==
    \A ref \in RoomRefs : Registered(ref) ~> ~Registered(ref)

\* a room with no host and no open channel left was removed by its timer
C7_Witness ==
    /\ last.op \in {"expiry", "grace"}
    /\ rooms = <<>>
    /\ Len(heap) >= 1
    /\ \A c \in Channels : clients[c].st # "open"
    /\ ~down

\* the pending expiry timers of room object ref
ExpiryTimersOf(ref) == {t \in timers : t.kind = "expiry" /\ t.room = ref}

\* C8: a room object is in the registry if and only if its expiry timer is
\* pending: every registered room's expiryTimer handle is a pending expiry
\* timer of that room under its code, and no expiry timer is pending for a
\* room object that is not registered.
C8_ExpiryTimerIffRegistered ==
    /\ \A i \in 1..Len(rooms) :
         \E t \in ExpiryTimersOf(rooms[i].v) :
            t.id = heap[rooms[i].v].expiryTimer /\ t.roomId = rooms[i].k
    /\ \A t \in timers : t.kind = "expiry" => Registered(t.room)

\* a room has just been removed, and no expiry timer of it is left pending
C8_Witness ==
    /\ last.op \in {"terminate", "grace", "expiry", "SIGTERM"}
    /\ Len(heap) >= 1
    /\ ~Registered(1)
    /\ ExpiryTimersOf(1) = {}

\* the pending host-disconnect timers of room object ref
GraceTimersOf(ref) == {t \in timers : t.kind = "grace" /\ t.room = ref}

\* C9: for every room in the registry, a host-disconnect timer of that room
\* is pending if and only if the room has no attached host channel.
C9_GraceTimerIffNoHost ==
    \A i \in 1..Len(rooms) :
        (GraceTimersOf(rooms[i].v) # {}) <=> (heap[rooms[i].v].hostWs = Null)

\* the parties a sessionId identifies: the host of a registered room, or a
\* player of one
Parties(sid) ==
    {<<"host", rooms[i].k>> : i \in {j \in 1..Len(rooms) :
                                        heap[rooms[j].v].hostSessionId = sid}}
    \cup {<<"player", rooms[i].k>> : i \in {j \in 1..Len(rooms) :
                                        MapHas(heap[rooms[j].v].players, sid)}}

SessionIdsInUse ==
    {heap[rooms[i].v].hostSessionId : i \in 1..Len(rooms)}
    \cup UNION {MapKeys(heap[rooms[i].v].players) : i \in 1..Len(rooms)}

\* C10: no sessionId identifies more than one party across the rooms: it is
\* the hostSessionId of at most one room, a player key in at most one room,
\* and never both.
C10_SessionIdsUnique ==
    \A sid \in SessionIdsInUse : Cardinality(Parties(sid)) <= 1


\* C11: every stored player.score is a finite number that is not negative,
\* whatever scores restore_room snapshots and send_results frames carry.
C11_ScoresAreValid ==
    \A r \in 1..Len(heap) : \A i \in 1..Len(heap[r].players) :
        LET score == heap[r].players[i].v.score
        IN score.ty = "number" /\ score.fin /\ score.n >= 0

\* the host of a room restored from a snapshot with scores that are infinite,
\* no number and missing has just sent results; the players restored with
\* such scores hold 0 and the valid score stands
C11_Witness ==
    /\ last.op = "send_results"
    /\ MapHas(rooms, clients[last.ws].roomId)
    /\ LET room == RoomAt(clients[last.ws].roomId)
       IN /\ room.hostSessionId = clients[last.ws].sessionId
          /\ MapHas(room.players, ForeignSid)
          /\ MapGet(room.players, ForeignSid).score = ScoreNum(9)
          /\ \A k \in {2, 4, 5, 6} :
                /\ MapHas(room.players, SnapshotSid(k))
                /\ MapGet(room.players, SnapshotSid(k)).score = ScoreNum(0)


\* what a step leaves of the registry: every entry stands where it stood,
\* with the same room object in the same state, and no timer is cancelled
RegistryKept ==
    /\ Len(rooms') >= Len(rooms)
    /\ \A i \in 1..Len(rooms) :
          rooms'[i] = rooms[i] /\ heap'[rooms[i].v] = heap[rooms[i].v]
    /\ timers \subseteq timers'

\* what a step registers: nothing, or one new room object under a code that
\* was not in the registry
RegistersFresh(c) ==
    \/ rooms' = rooms
    \/ /\ Len(rooms') = Len(rooms) + 1
       /\ ~MapHas(rooms, rooms'[Len(rooms')].k)
       /\ rooms'[Len(rooms')].v = Len(heap) + 1
       /\ clients'[c].roomId = rooms'[Len(rooms')].k
       /\ Len(sent') >= 1
       /\ sent'[1].to = c
       /\ sent'[1].msg.roomId = rooms'[Len(rooms')].k

\* C12: create_room, and restore_room unless it carries the code and the
\* hostSessionId of a live room (then it is a reconnect), leave every room of
\* the registry as it is -- entry, host channel, hostSessionId, players,
\* timers -- and register a new room only under a code that is not in the
\* registry, which the reply returns; a restore_room that names the code of a
\* live room with another hostSessionId registers its room under another code.
C12_NoRoomReplaced ==
    [][/\ \A c \in Channels : handleCreateRoom(c) => RegistryKept /\ RegistersFresh(c)
       /\ last'.op = "restore_room" =>
             \A msg \in RestoreMsgs :
                 handleRestoreRoom(last'.ws, msg) /\ ~CarriesHostSession(msg) =>
                     /\ RegistryKept
                     /\ RegistersFresh(last'.ws)
                     /\ (MapHas(rooms, ToUpperCase(msg.roomId)) /\ rooms' # rooms) =>
                            sent'[1].msg.roomId # ToUpperCase(msg.roomId)]_vars

\* a host has restored under the code of a room another host created: the
\* created room stands, the restored room got the other code
C12_Witness ==
    /\ last.op = "restore_room"
    /\ lim.names = {"AB12"}
    /\ Len(rooms) = 2
    /\ rooms[1].k = "AB12" /\ rooms[2].k = "CD34"
    /\ heap[rooms[1].v].hostSessionId = MintedSessionId(1)
    /\ heap[rooms[1].v].hostWs = 1
    /\ heap[rooms[2].v].hostWs = last.ws
    /\ sent = Only(last.ws, [type |-> "host_reconnected", roomId |-> "CD34",
                            players |-> PlayerList(heap[rooms[2].v]),
                            isRestored |-> TRUE])


\* C13: a reconnect_host that names a code that is not in the registry and
\* carries a sessionId is answered with room_not_found_try_restore, with that
\* code and that sessionId, and nothing else happens: no room, no binding, no
\* timer, no other frame.
C13_MissingRoomSuggestsRestore ==
    [][\A c \in Channels : \A msg \in ReconnectMsgs :
          (/\ handleReconnectHost(c, msg)
           /\ ~MapHas(rooms, ToUpperCase(msg.roomId))
           /\ msg.sessionId # Undefined) =>
              /\ sent' = Only(c, [type |-> "room_not_found_try_restore",
                                  roomId |-> ToUpperCase(msg.roomId),
                                  sessionId |-> msg.sessionId])
              /\ rooms' = rooms /\ heap' = heap /\ timers' = timers
              /\ clients' = clients
              /\ nextMint' = nextMint /\ nextTimer' = nextTimer]_vars

\* the room is gone, and a host that asked for it with its session id was told
\* to restore it
C13_Witness ==
    /\ last.op = "reconnect_host"
    /\ rooms = <<>>
    /\ Len(heap) >= 1
    /\ clients[last.ws].roomId = NoRoomId
    /\ sent = Only(last.ws, [type |-> "room_not_found_try_restore",
                            roomId |-> "AB12",
                            sessionId |-> MintedSessionId(1)])

\* channel c can invoke the host-only verbs on the room registered under code
HostOf(cl, c, code, room) ==
    cl[c].roomId = code /\ cl[c].sessionId = room.hostSessionId

\* C14: a reconnect_host that names a live room with a sessionId that is not
\* the room's hostSessionId is answered with the InvalidSession error and
\* changes nothing; a restore_room that does so leaves the room -- host
\* channel, host-disconnect timer, players -- and its timers as they are; in
\* both cases the sender cannot invoke the host-only verbs on that room
\* afterwards unless it could before.
C14_WrongSessionNeverAttaches ==
    [][/\ \A c \in Channels : \A msg \in ReconnectMsgs :
             (/\ handleReconnectHost(c, msg)
              /\ MapHas(rooms, ToUpperCase(msg.roomId))
              /\ RoomAt(ToUpperCase(msg.roomId)).hostSessionId # msg.sessionId) =>
                 /\ sent' = Only(c, ErrorFrame(ErrInvalidSession))
                 /\ rooms' = rooms /\ heap' = heap /\ timers' = timers
                 /\ clients' = clients
       /\ last'.op = "restore_room" =>
             \A msg \in RestoreMsgs :
                 (/\ handleRestoreRoom(last'.ws, msg)
                  /\ MapHas(rooms, ToUpperCase(msg.roomId))
                  /\ RoomAt(ToUpperCase(msg.roomId)).hostSessionId # msg.sessionId) =>
                     LET code == ToUpperCase(msg.roomId)
                         ref == MapGet(rooms, code)
                     IN /\ MapHas(rooms', code) /\ MapGet(rooms', code) = ref
                        /\ heap'[ref] = heap[ref]
                        /\ timers \subseteq timers'
                        /\ HostOf(clients', last'.ws, code, heap'[ref]) =>
                               HostOf(clients, last'.ws, code, heap[ref])]_vars

\* the host of a room is gone, its grace timer runs, and a channel that asked
\* to be its host with another session id was turned away
C14_Witness ==
    /\ last.op = "reconnect_host"
    /\ sent = Only(last.ws, ErrorFrame(ErrInvalidSession))
    /\ clients[last.ws].roomId = NoRoomId
    /\ Len(rooms) = 1
    /\ heap[rooms[1].v].hostWs = Null
    /\ GraceTimersOf(rooms[1].v) # {}


\* the entries of the snapshot a restore_room frame carries
SnapshotOf(msg) == IF msg.players.isArray THEN msg.players.list ELSE <<>>

\* the player list of a frame, as the table it reports
ReportOf(players) ==
    [i \in 1..Len(players) |->
        [sessionId |-> players[i].k, name |-> players[i].v.name,
         score |-> players[i].v.score, isConnected |-> players[i].v.isConnected]]

\* the room object a step has just registered
Restored == heap'[Len(heap')]

\* C15 as stated: when restore_room creates a room, the reply lists the stored
\* player table, and the table holds one entry per snapshot entry, with that
\* entry's id, sanitized name and score, not connected and without a channel.
C15_OneEntryPerSnapshotEntry ==
    [][last'.op = "restore_room" =>
          \A msg \in RestoreMsgs :
              handleRestoreRoom(last'.ws, msg) /\ Len(rooms') > Len(rooms) =>
                  LET list == SnapshotOf(msg)
                      table == Restored.players
                  IN /\ sent'[1].msg.players = ReportOf(table)
                     /\ Len(table) = Len(list)
                     /\ \A i \in 1..Len(list) :
                           /\ table[i].k = list[i].id
                           /\ table[i].v.name = sanitizeName(list[i].name)
                           /\ table[i].v.score = list[i].score
                           /\ ~table[i].v.isConnected
                           /\ table[i].v.ws = Null]_vars

\* C15, amended: when restore_room creates a room, the reply is
\* host_reconnected with isRestored true and lists the stored player table.
\* The table holds one entry per distinct id among the entries that are
\* valid (the id a string that starts with 'sess-', the name present) within
\* the first MAX_PLAYERS_PER_ROOM entries of the snapshot, in the order in
\* which the ids first occur; the entry holds the sanitized name of the last
\* valid entry with that id and its score if that is a finite number >= 0,
\* else 0; it is not connected and has no channel.  A player that is not
\* connected becomes connected only by a join with its sessionId.
C15_RestoreKeepsValidEntries ==
    [][/\ last'.op = "restore_room" =>
             \A msg \in RestoreMsgs :
                 handleRestoreRoom(last'.ws, msg) /\ Len(rooms') > Len(rooms) =>
                     LET list == SnapshotOf(msg)
                         table == Restored.players
                         taken == {i \in 1..Len(list) :
                                      /\ i <= MAX_PLAYERS_PER_ROOM
                                      /\ list[i].id.ty = "string"
                                      /\ list[i].id.pre = "sess-"
                                      /\ list[i].name.ty = "string"
                                      /\ list[i].name.chars # <<>>}
                         hits(x) == {i \in taken : list[i].id = table[x].k}
                         first(x) == LET at == hits(x)
                                     IN CHOOSE i \in at : \A j \in at : i <= j
                         final(x) == LET at == hits(x)
                                     IN CHOOSE i \in at : \A j \in at : j <= i
                     IN /\ sent' = Only(last'.ws,
                                        [type |-> "host_reconnected",
                                         roomId |-> rooms'[Len(rooms')].k,
                                         players |-> ReportOf(table),
                                         isRestored |-> TRUE])
                        /\ {table[x].k : x \in 1..Len(table)} = {list[i].id : i \in taken}
                        /\ Len(table) = Cardinality({list[i].id : i \in taken})
                        /\ \A x \in 1..(Len(table) - 1) : first(x) < first(x + 1)
                        /\ \A x \in 1..Len(table) :
                              LET given == list[final(x)]
                              IN /\ table[x].v.name = sanitizeName(given.name)
                                 /\ table[x].v.score =
                                       IF /\ given.score.ty = "number"
                                          /\ given.score.fin
                                          /\ given.score.n >= 0
                                       THEN given.score ELSE ScoreNum(0)
                                 /\ ~table[x].v.isConnected
                                 /\ table[x].v.ws = Null
       /\ \A r \in 1..Len(heap) : \A i \in 1..Len(heap[r].players) :
             (/\ ~heap[r].players[i].v.isConnected
              /\ Len(heap'[r].players) >= i
              /\ heap'[r].players[i].v.isConnected) =>
                 /\ last'.op = "join"
                 /\ clients'[last'.ws].sessionId = heap[r].players[i].k
                 /\ heap'[r].players[i].v.ws = last'.ws]_vars

\* a room has just been restored from a snapshot of nine entries, four of them
\* invalid or repeated: five players are stored, none connected
C15_Witness ==
    /\ last.op = "restore_room"
    /\ Len(sent) = 1
    /\ sent[1].msg.type = "host_reconnected"
    /\ "isRestored" \in DOMAIN sent[1].msg
    /\ Len(sent[1].msg.players) = 5
    /\ sent[1].msg.players[1] = [sessionId |-> ForeignSid, name |-> <<"E", "v", "e">>,
                                 score |-> ScoreNum(9), isConnected |-> FALSE]
    /\ sent[1].msg.players[3] = [sessionId |-> SnapshotSid(4), name |-> <<"A", "n", "n">>,
                                 score |-> ScoreNum(0), isConnected |-> FALSE]
    /\ sent[1].msg.players = ReportOf(RoomAt(sent[1].msg.roomId).players)


\* the channel table but for the record of when frames arrived
Fields(cl) == [c \in DOMAIN cl |-> [cl[c] EXCEPT !.lastFrame = Null, !.gone = FALSE]]

\* the reply of a restore_room that was turned away for coming too soon
TooSoon(c) == Only(c, ErrorFrame(ErrRestoreRateLimited))

\* C16 as stated: a restore_room that arrives less than 5 seconds after the
\* previous restore_room frame on its channel is answered with the
\* RestoreRateLimited error.
C16_LimitedAfterAnyRestore ==
    [][last'.op = "restore_room" =>
          \A msg \in RestoreMsgs :
              LET c == last'.ws
              IN (/\ handleRestoreRoom(c, msg)
                  /\ clients[c].lastFrame # Null
                  /\ now - clients[c].lastFrame < 5000) => sent' = TooSoon(c)]_vars

\* C16, amended: a restore_room that arrives less than 5 seconds after the
\* last restore_room on its channel that was not itself turned away by the
\* limit is answered with the RestoreRateLimited error and changes nothing: no
\* room, no host reattached, no room changed, no timer; any other
\* restore_room is not turned away by the limit and becomes the one the next
\* five seconds are counted from.
C16_RestoreRateLimit ==
    [][last'.op = "restore_room" =>
          \A msg \in RestoreMsgs :
              LET c == last'.ws
              IN handleRestoreRoom(c, msg) =>
                    IF clients[c].lastRestore # Null /\ now - clients[c].lastRestore < 5000
                    THEN /\ sent' = TooSoon(c)
                         /\ rooms' = rooms /\ heap' = heap /\ timers' = timers
                         /\ Fields(clients') = Fields(clients)
                    ELSE /\ sent' # TooSoon(c)
                         /\ clients'[c].lastRestore = now]_vars

\* a host restored its room and tried again 4999 ms later
C16_Witness ==
    /\ last.op = "restore_room"
    /\ sent = TooSoon(last.ws)
    /\ now - clients[last.ws].lastRestore = 4999
    /\ clients[last.ws].lastFrame = now
    /\ Len(rooms) = 1
    /\ heap[rooms[1].v].hostWs = last.ws
    /\ heap[rooms[1].v].createdAt = clients[last.ws].lastRestore


\* the registered rooms whose host channel is c
HostedBy(c) == {i \in 1..Len(rooms) : heap[rooms[i].v].hostWs = c}

Answered(frames) == {i \in 1..Len(frames) : frames[i].msg.type = "player_answered"}

\* the room objects that are registered before and after the step
Staying == {rooms[i].v : i \in 1..Len(rooms)} \cap {rooms'[i].v : i \in 1..Len(rooms')}

\* C18: every player_answered frame carries answerTime equal to the server
\* clock when the submit_answer was handled and elapsedMs equal to answerTime
\* minus the room's questionStartTime (null when the room has none);
\* questionStartTime changes only when a start_question of the room's host is
\* accepted, to the server clock of that moment, which is also the startTime
\* of the question frames.  The frames of the clients carry every time a
\* client may write (ClientTimes), so the three values are those of the
\* server clock whatever the clients supply.
C18_ServerTimesOnly ==
    [][ /\ last'.op = "submit_answer" =>
             LET c == last'.ws
                 code == clients[c].roomId
             IN \A i \in Answered(sent') :
                   /\ MapHas(rooms, code)
                   /\ sent'[i].msg.answerTime = now
                   /\ sent'[i].msg.elapsedMs =
                          IF RoomAt(code).questionStartTime = Null THEN Null
                          ELSE now - RoomAt(code).questionStartTime
        /\ last'.op # "submit_answer" => Answered(sent') = {}
        /\ \A ref \in Staying :
              heap'[ref].questionStartTime # heap[ref].questionStartTime =>
                 /\ last'.op = "start_question"
                 /\ MapHas(rooms, clients[last'.ws].roomId)
                 /\ MapGet(rooms, clients[last'.ws].roomId) = ref
                 /\ clients[last'.ws].sessionId = heap[ref].hostSessionId
                 /\ heap'[ref].questionStartTime = now
        /\ last'.op = "start_question" =>
             \A i \in 1..Len(sent') :
                 /\ sent'[i].msg.type = "question"
                 /\ sent'[i].msg.startTime = now
                 /\ MapHas(rooms, clients[last'.ws].roomId)
                 /\ heap'[MapGet(rooms, clients[last'.ws].roomId)].questionStartTime = now
        /\ last'.op # "start_question" =>
             \A i \in 1..Len(sent') : sent'[i].msg.type # "question"
      ]_vars

\* a player answered ThinkTime after its host started the question, and the
\* host was told so
C18_Witness ==
    /\ last.op = "submit_answer"
    /\ Answered(sent) # {}
    /\ \A i \in Answered(sent) :
          /\ sent[i].msg.answerTime = StartTime + ThinkTime
          /\ sent[i].msg.elapsedMs = ThinkTime
          /\ sent[i].to = RoomAt(clients[last.ws].roomId).hostWs
    /\ RoomAt(clients[last.ws].roomId).questionStartTime = StartTime


\* C19: questionStartTime is absent whenever no question is active: when the
\* host of a room has just sent the results of a question with send_results,
\* the room has no questionStartTime until the next start_question.
C19_NoStartTimeBetweenQuestions ==
    (last.op = "send_results" /\ ~NotHost(last.ws)) =>
        RoomAt(clients[last.ws].roomId).questionStartTime = Null


\* C20: a submit_answer from a channel bound to a known player of a live room
\* whose host is connected is forwarded to the host in exactly one
\* player_answered frame, with the player's sessionId and name and the
\* answerData unchanged, if answerData is an array of at most 20 entries;
\* otherwise nothing is sent to anyone; in neither case does any state change.
C20_AnswerForwardedOrDropped ==
    [][last'.op = "submit_answer" =>
          \A msg \in AnswerMsgs :
              LET c == last'.ws
                  code == clients[c].roomId
                  sid == clients[c].sessionId
              IN (/\ handleSubmitAnswer(c, msg)
                  /\ MapHas(rooms, code)
                  /\ MapHas(RoomAt(code).players, sid)
                  /\ IsOpen(RoomAt(code).hostWs)) =>
                     /\ rooms' = rooms /\ heap' = heap /\ clients' = clients
                     /\ timers' = timers
                     /\ IF msg.answerData.isArray /\ msg.answerData.len <= 20
                        THEN /\ Len(sent') = 1
                             /\ sent'[1].to = RoomAt(code).hostWs
                             /\ sent'[1].msg.type = "player_answered"
                             /\ sent'[1].msg.sessionId = sid
                             /\ sent'[1].msg.name = MapGet(RoomAt(code).players, sid).name
                             /\ sent'[1].msg.answerData = msg.answerData
                        ELSE sent' = <<>>]_vars

\* a player's answer of 20 entries has reached its host
C20_Witness ==
    /\ last.op = "submit_answer"
    /\ Len(sent) = 1
    /\ sent[1].msg.type = "player_answered"
    /\ sent[1].msg.answerData.len = 20
    /\ sent[1].msg.sessionId = clients[last.ws].sessionId
    /\ sent[1].to = RoomAt(clients[last.ws].roomId).hostWs
    /\ sent[1].to # last.ws


\* channel c is bound to a registered room as its host
IsHost(c) ==
    \E i \in 1..Len(rooms) :
        /\ rooms[i].k = clients[c].roomId
        /\ heap[rooms[i].v].hostSessionId = clients[c].sessionId

\* the question and the options of a start_question are of the sizes the relay takes
Acceptable(msg) ==
    /\ msg.question.ty = "string" /\ msg.question.len <= 4000
    /\ msg.options.isArray /\ msg.options.len <= 20
    /\ msg.options.allStrings /\ msg.options.longest <= 500

\* the player records of a room whose channel is attached and open, in the
\* order of the room's table
Reachable(room) ==
    SelectSeq(room.players,
              LAMBDA e : e.v.ws # Null /\ clients[e.v.ws].st = "open")

\* C21: an accepted start_question from the room's host sets the room's
\* questionStartTime to the server time and its currentQuestionIndex to the
\* index (0 for an invalid one), and sends one question frame, whose startTime
\* is that questionStartTime, to each player of the room with an open attached
\* channel and to no other channel; nothing else of the room changes.
C21_QuestionReachesPlayers ==
    [][last'.op = "start_question" =>
          \A msg \in QuestionMsgs :
              LET c == last'.ws
              IN (IsHost(c) /\ Acceptable(msg) /\ handleStartQuestion(c, msg)) =>
                    LET ref == MapGet(rooms, clients[c].roomId)
                        to == Reachable(heap[ref])
                    IN /\ heap'[ref] =
                            [heap[ref] EXCEPT
                                !.questionStartTime = now,
                                !.currentQuestionIndex =
                                    IF msg.index.ty = "number" /\ msg.index.n >= 0
                                    THEN msg.index.n ELSE 0]
                       /\ Len(sent') = Len(to)
                       /\ \A i \in 1..Len(to) :
                             /\ sent'[i].to = to[i].v.ws
                             /\ sent'[i].msg.type = "question"
                             /\ sent'[i].msg.startTime = heap'[ref].questionStartTime
                             /\ sent'[i].msg.question = msg.question
                             /\ sent'[i].msg.options = msg.options
                       /\ \A r \in 1..Len(heap) : r # ref => heap'[r] = heap[r]
                       /\ rooms' = rooms /\ clients' = clients /\ timers' = timers]_vars

\* a host started a question in a room with two players, one of which had
\* closed its channel: one frame went out, to the other
C21_Witness ==
    /\ last.op = "start_question"
    /\ IsHost(last.ws)
    /\ LET room == RoomAt(clients[last.ws].roomId)
       IN /\ room.questionStartTime = now
          /\ Len(room.players) = 2
          /\ Len(Reachable(room)) = 1
          /\ Len(sent) = 1
          /\ sent[1].msg.type = "question"
          /\ sent[1].to = Reachable(room)[1].v.ws
          /\ sent[1].to # last.ws


\* the question frames among the frames of a step
Questions(frames) == {i \in 1..Len(frames) : frames[i].msg.type = "question"}

\* C22: the duration of every question frame is greater than 0 and at most
\* 80: an accepted start_question is broadcast with its duration if that is a
\* number in this range and with 30 otherwise (0, negative, 81, missing, no
\* number), with its index if that is a number that is not negative and with 0
\* otherwise, and with its total if that is a positive number and with 1
\* otherwise.
C22_RelayFieldsNormalized ==
    [][/\ \A i \in Questions(sent') :
             sent'[i].msg.duration > 0 /\ sent'[i].msg.duration <= 80
       /\ last'.op = "start_question" =>
             \A msg \in QuestionMsgs :
                 LET c == last'.ws
                     d == msg.duration
                     x == msg.index
                     n == msg.total
                 IN (IsHost(c) /\ Acceptable(msg) /\ handleStartQuestion(c, msg)) =>
                       /\ Len(sent') = Len(Reachable(RoomAt(clients[c].roomId)))
                       /\ \A i \in 1..Len(sent') :
                             /\ sent'[i].msg.type = "question"
                             /\ sent'[i].msg.duration =
                                   IF d.ty = "number" /\ 0 < d.n /\ d.n <= 80
                                   THEN d.n ELSE 30
                             /\ sent'[i].msg.index =
                                   IF x.ty = "number" /\ x.n >= 0 THEN x.n ELSE 0
                             /\ sent'[i].msg.total =
                                   IF n.ty = "number" /\ n.n > 0 THEN n.n ELSE 1]_vars

\* a question went out to a player with the substituted duration, index and total
C22_Witness ==
    /\ last.op = "start_question"
    /\ IsHost(last.ws)
    /\ Questions(sent) # {}
    /\ \A i \in Questions(sent) :
          /\ sent[i].msg.duration = 30
          /\ sent[i].msg.index = 0
          /\ sent[i].msg.total = 1
          /\ sent[i].to # last.ws
    /\ RoomAt(clients[last.ws].roomId).currentQuestionIndex = 0


\* C23: a start_question from the room's host whose question is no string or
\* is longer than 4000 characters, whose options are no array of at most 20
\* entries, or that has an option that is no string of at most 500
\* characters, is dropped whole: the room keeps its questionStartTime and
\* currentQuestionIndex, no frame is sent, and nothing else changes.
C23_OversizeQuestionDropped ==
    [][last'.op = "start_question" =>
          \A msg \in QuestionMsgs :
              LET c == last'.ws
              IN (/\ IsHost(c)
                  /\ \/ msg.question.ty # "string" \/ msg.question.len > 4000
                     \/ ~msg.options.isArray \/ msg.options.len > 20
                     \/ ~msg.options.allStrings \/ msg.options.longest > 500
                  /\ handleStartQuestion(c, msg)) =>
                     /\ sent' = <<>>
                     /\ heap' = heap /\ rooms' = rooms
                     /\ clients' = clients /\ timers' = timers]_vars

\* a host that had question 1 running sent a start_question for question 2
\* that reached none of its players and left the room at question 1
C23_Witness ==
    /\ last.op = "start_question"
    /\ IsHost(last.ws)
    /\ sent = <<>>
    /\ LET room == RoomAt(clients[last.ws].roomId)
       IN /\ Len(Reachable(room)) >= 1
          /\ room.currentQuestionIndex = 1
          /\ room.questionStartTime = StartTime
          /\ now = StartTime + ThinkTime


\* the playerScores entries of a send_results, none when it carries no table
ScoreEntries(msg) ==
    IF msg.playerScores.present THEN msg.playerScores.entries ELSE <<>>

\* the entries for sid whose value is a finite number that is not negative
Scoring(entries, sid) ==
    {j \in 1..Len(entries) :
        /\ entries[j].k = sid
        /\ entries[j].v.ty = "number" /\ entries[j].v.fin /\ entries[j].v.n >= 0}

\* C24: on send_results from the room's host, a player's stored score is
\* replaced by the value of its playerScores entry if and only if there is
\* such an entry and its value is a finite number that is not negative; no
\* other field of any player changes and no player is added or removed; then
\* each player with an open attached channel is sent exactly one result frame
\* with its own stored score after the update and the room's
\* currentQuestionIndex, and no other frame is sent.
C24_ScoresUpdatedAndReported ==
    [][last'.op = "send_results" =>
          \A msg \in ResultMsgs :
              LET c == last'.ws
              IN (IsHost(c) /\ handleSendResults(c, msg)) =>
                    LET ref == MapGet(rooms, clients[c].roomId)
                        before == heap[ref].players
                        after == heap'[ref].players
                        entries == ScoreEntries(msg)
                        to == Reachable(heap'[ref])
                    IN /\ Len(after) = Len(before)
                       /\ \A i \in 1..Len(before) :
                             LET given == Scoring(entries, before[i].k)
                             IN /\ after[i].k = before[i].k
                                /\ after[i].v =
                                     [before[i].v EXCEPT !.score =
                                         IF given = {} THEN @
                                         ELSE entries[CHOOSE j \in given : TRUE].v]
                       /\ heap' = [heap EXCEPT ![ref].players = after]
                       /\ rooms' = rooms /\ clients' = clients /\ timers' = timers
                       /\ Len(sent') = Len(to)
                       /\ \A i \in 1..Len(to) :
                             /\ sent'[i].to = to[i].v.ws
                             /\ sent'[i].msg.type = "result"
                             /\ sent'[i].msg.playerScore = to[i].v.score
                             /\ sent'[i].msg.questionIndex =
                                   heap[ref].currentQuestionIndex]_vars

\* a host reported 7 points for the first of its two players: each got its
\* own result, the first with 7 and the second with the 0 it had
C24_Witness ==
    /\ last.op = "send_results"
    /\ IsHost(last.ws)
    /\ LET room == RoomAt(clients[last.ws].roomId)
       IN /\ Len(room.players) = 2
          /\ Len(sent) = 2
          /\ sent[1].to # sent[2].to
          /\ sent[1].msg.playerScore = ScoreNum(7)
          /\ sent[2].msg.playerScore = ScoreNum(0)
          /\ room.players[1].v.score = ScoreNum(7)
          /\ room.players[2].v.score = ScoreNum(0)


\* the reply to a submit_answer that finds no room
NotActive(c) == Only(c, ErrorFrame(ErrRoomNotActive))

\* what a terminate of the room's host does
Terminated ==
    \A c \in Channels :
        (last'.op = "terminate" /\ last'.ws = c /\ IsHost(c) /\ handleTerminate(c)) =>
            LET code == clients[c].roomId
                room == RoomAt(code)
                to == Reachable(room)
            IN /\ Len(sent') = Len(to)
               /\ \A i \in 1..Len(to) :
                     /\ sent'[i].to = to[i].v.ws
                     /\ sent'[i].msg = [type |-> "quiz_terminated"]
               /\ \A t \in timers' :
                     t.id # room.expiryTimer /\ t.id # room.hostDisconnectTimer
               /\ \A t \in timers :
                     (t.id # room.expiryTimer /\ t.id # room.hostDisconnectTimer)
                        => t \in timers'
               /\ \A i \in 1..Len(rooms') : rooms'[i].k # code
               /\ \A i \in 1..Len(rooms) :
                     rooms[i].k # code => \E j \in 1..Len(rooms') : rooms'[j] = rooms[i]
               /\ \A d \in Channels :
                     clients[d].roomId = code => clients'[d].gone

C26_PlayersOnlyGrow ==
    [][\A ref \in Staying :
          LET before == heap[ref].players
              after == heap'[ref].players
          IN /\ Len(after) >= Len(before)
             /\ \A i \in 1..Len(before) :
                   /\ after[i].k = before[i].k
                   /\ after[i].v.name = before[i].v.name
             /\ last'.op = "close" =>
                   LET ws == clients[last'.ws]
                   IN /\ Len(after) = Len(before)
                      /\ \A i \in 1..Len(before) :
                            IF /\ ws.role = "player"
                               /\ MapHas(rooms, ws.roomId)
                               /\ MapGet(rooms, ws.roomId) = ref
                               /\ before[i].k = ws.sessionId
                            THEN after[i].v = [name |-> before[i].v.name,
                                               score |-> before[i].v.score,
                                               ws |-> Null, isConnected |-> FALSE]
                            ELSE after[i].v = before[i].v]_vars

\* a player with points has closed its channel: its record is still in the
\* room, with its name and its points, next to the other player's
C26_Witness ==
    /\ last.op = "close"
    /\ Len(rooms) = 1
    /\ LET room == heap[rooms[1].v]
       IN /\ Len(room.players) = 2
          /\ room.players[1].v.ws = Null
          /\ ~room.players[1].v.isConnected
          /\ room.players[1].v.score = ScoreNum(7)
          /\ room.players[1].v.name # Spieler
          /\ room.players[2].v.isConnected
          /\ IsOpen(room.players[2].v.ws)


\* C27: of the frames a channel sends within one second, whenever that second
\* begins, at most RATE_LIMIT_PER_SECOND (20) are dispatched to handlers.
C27_TwentyFramesASecond ==
    \A c \in DOMAIN meter : meter[c].passed <= 20

\* C28: when a channel sends a burst within one second, the 21st frame of the
\* burst is the first breach: it is not dispatched but answered with an error
\* frame.
C28_BreachAtFrame21 ==
    [][\A c \in DOMAIN meter :
          (meter[c].got = 20 /\ meter'[c].got = 21) =>
              /\ last'.op = "limited"
              /\ sent' = Only(c, ErrorFrame(ErrTooManyMessages))]_vars

\* C29: a frame that is no JSON and a frame that has no type field are each
\* answered with an error frame on the channel they came from.
C29_MalformedFrameIsAnswered ==
    last.op \in {"unparseable", "no_type"} =>
        sent = Only(last.ws, ErrorFrame(ErrInvalidFormat))

\* C30: no frame stops the relay: whatever a parseable frame holds, its
\* handler ends without an uncaught fault and the server keeps serving.
C30_NoFrameStopsTheRelay ==
    ~crashed

(***************************************************************************)
(* Shutdown.                                                               *)
(***************************************************************************)
\* the channels the shutdown loop writes to: the open channels attached to
\* the players and the hosts of the registered rooms
ShutdownAudience ==
    UNION {PlayerChannels(heap[rooms[i].v])
              \cup {c \in Channels : /\ clients[c].st = "open"
                                     /\ heap[rooms[i].v].hostWs = c} :
           i \in 1..Len(rooms)}

\* C31: on SIGTERM every player with an open channel and every host with an
\* open channel of every registered room is sent quiz_terminated, the
\* registry is empty afterwards, and every pending expiry timer and
\* host-disconnect timer is cancelled, so that no room timer is left to fire.
C31_ShutdownCancelsEveryTimer ==
    [][last'.op = "SIGTERM" =>
          /\ {sent'[k].to : k \in 1..Len(sent')} = ShutdownAudience
          /\ \A k \in 1..Len(sent') : sent'[k].msg = Frame("quiz_terminated")
          /\ rooms' = <<>>
          /\ timers' = {}]_vars

(***************************************************************************)
(* The heartbeat sweep.                                                    *)
(***************************************************************************)
\* the channel was sent a ping by the last sweep and its pong event has not
\* run since
Silent(c) == c \in wssClients /\ heart.ws[c].pinged /\ ~heart.ws[c].ponged

\* the frames of a step that are pings
PingedNow(frames) == {frames[k].to : k \in {i \in 1..Len(frames) :
                                               frames[i].msg = Frame("ping")}}

\* C32, as stated: at each sweep every channel whose pong event has not run
\* since the previous sweep is forcibly closed.
C32_NoPongThenClosed ==
    [][last'.op = "heartbeat" =>
          \A c \in wssClients :
              ~heart.ws[c].ponged => clients'[c].st = "terminated"]_vars

\* C32, amended: at each sweep every channel that the previous sweep pinged
\* and whose pong event has not run since is terminated, and every other
\* connected channel is marked not alive and, if it is open, pinged -- so a
\* channel that connected since the previous sweep, or that answers every
\* ping, is not closed by the sweep; no step but a sweep (and the rate
\* limit) terminates a channel; and the close event of a channel runs the
\* same handler whether the sweep terminated the channel or its client
\* closed it: a channel bound as player of a registered room that holds its
\* sessionId leaves the player not connected and without channel, and the
\* room's host channel, if open, is sent player_left; a channel bound as
\* host of a registered room leaves the room without host channel and arms
\* its host-disconnect timer.
C32_SweepClosesSilentChannels ==
    [][ /\ last'.op = "heartbeat" =>
             /\ \A c \in wssClients :
                   IF Silent(c)
                   THEN clients'[c].st = "terminated" /\ c \notin PingedNow(sent')
                   ELSE /\ clients'[c] = clients[c]
                        /\ ~heart'.ws[c].isAlive
                        /\ IsOpen(c) <=> c \in PingedNow(sent')
             /\ \A c \in Channels \ wssClients :
                   clients'[c] = clients[c] /\ c \notin PingedNow(sent')
             /\ \A k \in 1..Len(sent') : sent'[k].msg = Frame("ping")
             /\ heart'.beat = now + HEARTBEAT_MS
             /\ UNCHANGED <<rooms, heap, timers>>
        /\ \A c \in Channels :
              (clients[c].st = "open" /\ clients'[c].st = "terminated") =>
                  \/ last'.op = "heartbeat" /\ Silent(c)
                  \/ last'.op = "limited"
        /\ last'.op = "close" =>
             LET c == last'.ws
                 ws == clients[c]
             IN /\ ws.st \in {"open", "terminated"}
                /\ clients'[c].st = "closed"
                /\ MapHas(rooms, ws.roomId) =>
                      LET ref == MapGet(rooms, ws.roomId)
                      IN /\ (ws.role = "player"
                             /\ MapHas(heap[ref].players, ws.sessionId)) =>
                               LET player == MapGet(heap'[ref].players, ws.sessionId)
                                   host == heap[ref].hostWs
                               IN /\ ~player.isConnected
                                  /\ player.ws = Null
                                  /\ sent' =
                                       IF host # Null /\ clients'[host].st = "open"
                                       THEN Only(host,
                                                 [type |-> "player_left",
                                                  sessionId |-> ws.sessionId,
                                                  name |-> player.name,
                                                  playerCount |->
                                                     getConnectedPlayerCount(heap'[ref])])
                                       ELSE <<>>
                         /\ ws.role = "host" =>
                               /\ heap'[ref].hostWs = Null
                               /\ \E t \in timers' \ timers :
                                     /\ t.kind = "grace"
                                     /\ t.room = ref
                                     /\ t.at = now + HOST_GRACE_MS
                                     /\ heap'[ref].hostDisconnectTimer = t.id
      ]_vars

\* the sweep terminated the channel of a player that did not answer its
\* ping, while the host, which did, stayed open; the close event of the
\* player's channel then told the host that the player left
C32_Witness ==
    /\ lim.heart
    /\ last.op = "close"
    /\ Len(sent) = 1
    /\ sent[1].msg.type = "player_left"
    /\ clients[sent[1].to].st = "open"
    /\ heart.ws[sent[1].to].pinged
    /\ heart.beat = StartTime + 3 * HEARTBEAT_MS

(***************************************************************************)
(* Session ids.                                                            *)
(***************************************************************************)
\* the format of generateSessionId: 'sess-' and a suffix
MintFormat(v) == IsString(v) /\ StartsWithSess(v) /\ v.n # 0

\* C33: no room in the registry has a hostSessionId or a player key that is
\* not of the mint format: a session id of another format that a client
\* supplies is taken for absent by join, restore_room and reconnect_host.
C33_OnlyMintFormatIds ==
    \A i \in 1..Len(rooms) :
        LET room == heap[rooms[i].v]
        IN /\ MintFormat(room.hostSessionId)
           /\ \A x \in 1..Len(room.players) : MintFormat(room.players[x].k)

(***************************************************************************)
(* Players and their channels.                                             *)
(***************************************************************************)
\* C34: in every reachable state a player that is marked connected has an
\* attached channel that is open and that is bound to the player's sessionId
\* and to the code of the player's room; so after joins on one channel and
\* the close of that channel no player is left marked connected.
C34_ConnectedMeansAttached ==
    \A i \in 1..Len(rooms) :
        LET room == heap[rooms[i].v]
        IN \A x \in 1..Len(room.players) :
              LET player == room.players[x].v
              IN player.isConnected =>
                    /\ player.ws # Null
                    /\ clients[player.ws].st = "open"
                    /\ clients[player.ws].sessionId = room.players[x].k
                    /\ clients[player.ws].roomId = rooms[i].k

(***************************************************************************)
(* Timers and the room objects they were armed for.                        *)
(***************************************************************************)
\* the timer whose callback the step runs
Fires(t) ==
    \/ last'.op = "expiry" /\ ExpiryFire(t)
    \/ last'.op = "grace" /\ GraceFire(t)

\* C35: the callback of a timer touches the room object it was armed for
\* and no other: a registry entry that a timer step removes holds the
\* timer's own room object, its frames go to the players of that object,
\* and every other registered room object is left as it is; so when the
\* timer of a room that is no longer registered fires -- another room may
\* be registered under its code by then -- no frame is sent and the registry
\* and the registered rooms are unchanged.
C35_TimerTouchesItsOwnRoom ==
    [][last'.op \in {"expiry", "grace"} =>
          \A t \in timers :
              Fires(t) =>
                 /\ \A i \in 1..Len(rooms) :
                       IF rooms[i].v = t.room /\ rooms[i].k = t.roomId
                       THEN TRUE
                       ELSE /\ \E j \in 1..Len(rooms') : rooms'[j] = rooms[i]
                            /\ heap'[rooms[i].v] = heap[rooms[i].v]
                 /\ \A k \in 1..Len(sent') :
                       /\ sent'[k].to \in PlayerChannels(heap[t.room])
                       /\ sent'[k].msg = Frame("quiz_terminated")
                 /\ ~Registered(t.room) =>
                       /\ rooms' = rooms
                       /\ sent' = <<>>
                 /\ Len(rooms') <= Len(rooms)
                 /\ \A j \in 1..Len(rooms') : \E i \in 1..Len(rooms) : rooms[i] = rooms'[j]
      ]_vars

\* a host-disconnect timer of a room that is no longer registered has fired
\* while a newer room, registered under the same code, had no host channel:
\* nothing was sent and the newer room is still registered
C35_Witness ==
    /\ last.op = "grace"
    /\ sent = <<>>
    /\ lim.codes = {"AB12"}
    /\ Len(heap) = 2
    /\ heap[1] = Garbage
    /\ rooms = <<[k |-> "AB12", v |-> 2]>>
    /\ heap[2].hostWs = Null
    /\ ~down

(***************************************************************************)
(* Channels that were superseded and close later.                          *)
(***************************************************************************)
\* the channel is bound as host to a registered room of its own session whose
\* host channel is another, open channel: it was superseded by reconnect_host
Superseded(c) ==
    /\ clients[c].role = "host"
    /\ MapHas(rooms, clients[c].roomId)
    /\ LET room == RoomAt(clients[c].roomId)
       IN /\ room.hostSessionId = clients[c].sessionId
          /\ room.hostWs # Null /\ room.hostWs # c
          /\ clients[room.hostWs].st = "open"

\* C36: the close of a host channel that was superseded by reconnect_host
\* while it was open leaves the room's host channel pointing at the new
\* channel and arms no host-disconnect timer.
C36_SupersededCloseKeepsHost ==
    [][last'.op = "close" /\ Superseded(last'.ws) =>
          LET ref == MapGet(rooms, clients[last'.ws].roomId)
          IN /\ heap'[ref].hostWs = heap[ref].hostWs
             /\ heap'[ref].hostDisconnectTimer = heap[ref].hostDisconnectTimer
             /\ timers' = timers]_vars

\* the channel is bound as player to a record of a registered room that is
\* attached to another, open channel: the player rejoined with its sessionId
Replaced(c) ==
    /\ clients[c].role = "player"
    /\ MapHas(rooms, clients[c].roomId)
    /\ LET room == RoomAt(clients[c].roomId)
       IN /\ MapHas(room.players, clients[c].sessionId)
          /\ LET player == MapGet(room.players, clients[c].sessionId)
             IN /\ player.ws # Null /\ player.ws # c
                /\ clients[player.ws].st = "open"

\* C37: the close of a player's previous channel, after the player rejoined
\* with its sessionId on a new channel, leaves the player's record as it is
\* (connected, attached to the new channel) and sends no player_left.
C37_ReplacedCloseKeepsPlayer ==
    [][last'.op = "close" /\ Replaced(last'.ws) =>
          LET ref == MapGet(rooms, clients[last'.ws].roomId)
          IN /\ heap'[ref].players = heap[ref].players
             /\ sent' = <<>>]_vars

(***************************************************************************)
(* The grace period of a room without host.                                *)
(***************************************************************************)
\* C38: a host-disconnect timer removes a room only when 5 minutes have
\* passed since the latest close of a host channel of the room, that is when
\* no host-disconnect timer armed for the room by a later close is pending.
C38_GraceCountsFromLatestClose ==
    [][last'.op = "grace" =>
          \A t \in timers :
              (t.kind = "grace" /\ GraceApplies(t) /\ GraceFire(t)) =>
                  \A u \in GraceTimersOf(t.room) : u.at <= now]_vars

(***************************************************************************)
(* The close of a channel and the rooms it is not attached to.             *)
(***************************************************************************)
\* C39: the close of a channel leaves every registered room whose host
\* channel is another channel or none as it is, with its host channel and
\* its stored timer handle, and arms no host-disconnect timer for it; so for
\* a room registered under the code of a removed room the channel was host
\* of, and for a room whose host channel was rebound.
C39_CloseSparesOtherRooms ==
    [][last'.op = "close" =>
          \A i \in 1..Len(rooms) :
              LET ref == rooms[i].v
              IN heap[ref].hostWs # last'.ws =>
                    /\ heap'[ref].hostWs = heap[ref].hostWs
                    /\ heap'[ref].hostDisconnectTimer = heap[ref].hostDisconnectTimer
                    /\ {t \in timers' : t.kind = "grace" /\ t.room = ref}
                          = GraceTimersOf(ref)]_vars

(***************************************************************************)
(* The rooms and the channels their frames go to.                          *)
(***************************************************************************)
\* in cl the channel is bound to the room code in the given role
BoundAs(cl, c, role, code) == cl[c].role = role /\ cl[c].roomId = code

ToPlayers == {"question", "result", "quiz_terminated"}
ToHost == {"player_answered", "player_joined", "player_reconnected", "player_left"}

\* C40: a question, result or quiz_terminated frame that a host's frame or
\* a timer produces for a room goes to channels that are bound as players to
\* that room's code; a player_answered, player_joined, player_reconnected or
\* player_left frame that a player's frame or close produces goes to the
\* host channel of the player's room, bound as host to that room's code.
C40_RoomsIsolated ==
    [][ /\ last'.op \in {"start_question", "send_results", "terminate"} =>
             \A k \in 1..Len(sent') :
                 sent'[k].msg.type \in ToPlayers =>
                    BoundAs(clients', sent'[k].to, "player", clients[last'.ws].roomId)
        /\ last'.op \in {"expiry", "grace"} =>
             \A t \in timers :
                 Fires(t) => \A k \in 1..Len(sent') :
                                BoundAs(clients', sent'[k].to, "player", t.roomId)
        /\ last'.op \in {"join", "submit_answer", "close"} =>
             LET code == IF last'.op = "join" THEN clients'[last'.ws].roomId
                         ELSE clients[last'.ws].roomId
             IN \A k \in 1..Len(sent') :
                   sent'[k].msg.type \in ToHost =>
                      /\ MapHas(rooms, code)
                      /\ sent'[k].to = RoomAt(code).hostWs
                      /\ BoundAs(clients', sent'[k].to, "host", code)
      ]_vars

====
